---------------------------- MODULE Spec2Model ----------------------------
(***************************************************************************)
(* Arbitrage detection over a fixture's odds snapshot (src/src/core.ts).   *)
(*                                                                         *)
(* Numbers.  Prices are decimal odds held in hundredths (300 is 3.00).     *)
(* The code computes in IEEE 754 doubles, and so does the model: a finite  *)
(* double is the pair <<m, e>> of its value m * 2^e, every operation is    *)
(* the exact result rounded to the nearest double, ties to even.  A value  *)
(* rounded to 4 decimals is reported as an integer count of 0.0001, a      *)
(* value rounded to 2 decimals as an integer count of 0.01.  A number is a *)
(* record [kind, v]: kind "num" with v, or kind "inf" / "nan" for the      *)
(* results of x/0 and 0/0.  The claims are stated in exact rational        *)
(* arithmetic, <<num, den>> in lowest terms.                               *)
(*                                                                         *)
(* Keys.  Outcome and market ids are integer-like object keys ("101"), so  *)
(* Object.keys / Object.entries list them in ascending numeric order;      *)
(* bookmaker names are ordinary strings, listed in insertion order, which  *)
(* is the order of BookmakerOrder.                                         *)
(***************************************************************************)
EXTENDS Integers, Sequences, FiniteSets, TLC

VARIABLES oddsData, call, result, heap

vars == <<oddsData, call, result, heap>>

(***************************************************************************)
(* Bounds of the model and the input alphabet.                             *)
(***************************************************************************)
MaxQuotes == 3

MaxLists == 3

MaxListLen == 3

MaxCap == 9

MaxCarried == 2

MaxTime == 2

MaxCalls == 4

BookmakerOrder == <<"b1", "b2">>

BookmakerNames == {BookmakerOrder[i] : i \in 1..Len(BookmakerOrder)}

\* the insertion order of every bookmaker name a snapshot can list
AllBookmakerOrder == BookmakerOrder \o <<"b3", "b4">>

MarketIds == {101}

OutcomeIds == {1, 2, 3}

\* 1.00, 3.00, 30.00 and 30000.00
ActivePrices == {100, 300, 3000, 3000000}

InactivePrices == {3000}

QuoteOptions ==
  {[active |-> TRUE, price |-> p] : p \in ActivePrices}
    \cup {[active |-> FALSE, price |-> p] : p \in InactivePrices}

EmptyMap == [x \in {} |-> 0]

\* the odds of one assignment a snapshot of the core operations can give,
\* outcome by outcome
CoreOdds == UNION {[1..n -> ActivePrices] : n \in 0..Cardinality(OutcomeIds)}

\* the prices of the markets whose sums lie around 1: 1.08, 1.5 or 3.0 on the
\* first outcome, 13.5, 1.5 or 3.0 on the second (1/1.08 + 1/13.5 and
\* 1/1.5 + 1/3.0 are 1 exactly)
EdgePrices == <<{108, 150, 300}, {1350, 150, 300}>>

\* the odds of one assignment such a market can give
EdgeOdds ==
  {<<a, b>> : a \in EdgePrices[1], b \in EdgePrices[2]}
    \cup {<<a>> : a \in EdgePrices[1] \cup EdgePrices[2]}

\* the odds of one assignment the markets of a run can give: 2.2, 1.82 or
\* 30.0 on the first outcome, 2.2, 2.22 or 30.0 on the second, 30.0 on a third
RunOdds ==
  {<<a, b>> : a \in {182, 220, 3000}, b \in {220, 222, 3000}}
    \cup {<<a, b, 3000>> : a \in {182, 220, 3000}, b \in {220, 222, 3000}}

(***************************************************************************)
(* Exact rational arithmetic, in which the claims are stated.              *)
(***************************************************************************)
RECURSIVE GCD(_, _)
GCD(a, b) == IF b = 0 THEN a ELSE GCD(b, a % b)

\* the rational n/d (d > 0, n >= 0) in lowest terms
Norm(n, d) == LET g == GCD(n, d) IN <<n \div g, d \div g>>

\* the sum of two rationals
RAdd(r, s) ==
  LET l == (r[2] \div GCD(r[2], s[2])) * s[2]
  IN  Norm(r[1] * (l \div r[2]) + s[1] * (l \div s[2]), l)

\* r < s on rationals
RLess(r, s) == r[1] * s[2] < s[1] * r[2]

\* the rational r times the integer k > 0, in lowest terms
RTimes(r, k) == LET g == GCD(k, r[2]) IN <<r[1] * (k \div g), r[2] \div g>>

\* 1 / odds, exactly, for a price in hundredths
ExactInv(price) == Norm(100, price)

\* a set of integers as the ascending sequence of its elements
RECURSIVE SortedSeq(_)
SortedSeq(S) ==
  IF S = {} THEN << >>
  ELSE LET lo == CHOOSE x \in S : \A y \in S : x <= y
       IN  <<lo>> \o SortedSeq(S \ {lo})

(***************************************************************************)
(* Natural numbers of any size, for the mantissas of the doubles: a        *)
(* sequence of limbs in base Base, the least significant first, without    *)
(* leading zero limbs; 0 is the empty sequence.                            *)
(***************************************************************************)
LimbBits == 15

Base == 32768

Limb(a, i) == IF 1 <= i /\ i <= Len(a) THEN a[i] ELSE 0

\* a without its leading zero limbs
Trim(a) ==
  LET used == {i \in 1..Len(a) : a[i] # 0}
  IN  SubSeq(a, 1, IF used = {} THEN 0
                   ELSE CHOOSE i \in used : \A j \in used : j <= i)

\* the limbs of n, for n below 2^31
FromInt(n) == Trim(<<n % Base, (n \div Base) % Base, n \div (Base * Base)>>)

\* the value of a, for a below 2^31
ToInt(a) == Limb(a, 1) + Base * Limb(a, 2) + Base * Base * Limb(a, 3)

RECURSIVE AddFrom(_, _, _, _)
AddFrom(a, b, i, carry) ==
  IF i > Len(a) /\ i > Len(b)
  THEN IF carry = 0 THEN << >> ELSE <<carry>>
  ELSE <<(Limb(a, i) + Limb(b, i) + carry) % Base>>
         \o AddFrom(a, b, i + 1, (Limb(a, i) + Limb(b, i) + carry) \div Base)

BAdd(a, b) == AddFrom(a, b, 1, 0)

RECURSIVE SubFrom(_, _, _, _)
SubFrom(a, b, i, borrow) ==
  IF i > Len(a) THEN << >>
  ELSE <<(a[i] - Limb(b, i) - borrow + Base) % Base>>
         \o SubFrom(a, b, i + 1, IF a[i] - Limb(b, i) - borrow < 0 THEN 1 ELSE 0)

\* a - b for a >= b
BSub(a, b) == Trim(SubFrom(a, b, 1, 0))

\* -1, 0 or 1 as a < b, a = b or a > b: the longer one is the larger, and
\* of two of one length the one with the larger limb at the top place
\* where they differ
BCmp(a, b) ==
  IF Len(a) < Len(b) THEN -1
  ELSE IF Len(a) > Len(b) THEN 1
  ELSE LET differ == {i \in 1..Len(a) : a[i] # b[i]}
           top == CHOOSE i \in differ : \A j \in differ : j <= i
       IN  IF differ = {} THEN 0 ELSE IF a[top] < b[top] THEN -1 ELSE 1

RECURSIVE MulFrom(_, _, _, _)
MulFrom(a, k, i, carry) ==
  IF i > Len(a)
  THEN IF carry = 0 THEN << >> ELSE <<carry>>
  ELSE <<(a[i] * k + carry) % Base>>
         \o MulFrom(a, k, i + 1, (a[i] * k + carry) \div Base)

\* a * k for 0 <= k < Base
BMulSmall(a, k) == IF k = 0 THEN << >> ELSE MulFrom(a, k, 1, 0)

Zeros(n) == [i \in 1..n |-> 0]

\* a * 2^n
BShl(a, n) ==
  IF a = << >> THEN a
  ELSE Zeros(n \div LimbBits) \o BMulSmall(a, 2 ^ (n % LimbBits))

\* limb i of a \div 2^r for r below LimbBits
ShiftedLimb(a, i, r) ==
  (Limb(a, i) \div (2 ^ r)) + (Limb(a, i + 1) % (2 ^ r)) * (2 ^ (LimbBits - r))

\* a \div 2^n
BShr(a, n) ==
  IF n \div LimbBits >= Len(a) THEN << >>
  ELSE Trim([i \in 1..(Len(a) - n \div LimbBits) |->
               ShiftedLimb(a, i + n \div LimbBits, n % LimbBits)])

\* the number of binary digits of a limb
Bits(n) == Cardinality({b \in 0..(LimbBits - 1) : 2 ^ b <= n})

\* the number of binary digits of a
BitLen(a) == IF a = << >> THEN 0 ELSE LimbBits * (Len(a) - 1) + Bits(a[Len(a)])

\* the first estimate of a digit of the long division of r by d, from the
\* two top limbs of r and the top limb of d: for a divisor whose top limb
\* is at least Base / 2 and r < d * Base it is the digit or exceeds it by
\* 1 or 2
DigitEstimate(r, d) ==
  LET estimate == (Limb(r, Len(d) + 1) * Base + Limb(r, Len(d))) \div d[Len(d)]
  IN  IF estimate < Base THEN estimate ELSE Base - 1

\* the digit q with q * d <= r < (q + 1) * d, from its estimate
Digit(r, d, estimate) ==
  estimate - Cardinality({c \in 0..1 :
                            /\ c < estimate
                            /\ BCmp(BMulSmall(d, estimate - c), r) > 0})

\* long division in base Base, for a divisor d whose top limb is at least
\* Base / 2: the limbs j down to 1 of n are still to be brought down, q is
\* the quotient of the limbs above them and r < d their remainder
RECURSIVE DivModFrom(_, _, _, _, _)
DivModWith(n, d, j, q, r, digit) ==
  DivModFrom(n, d, j - 1, <<digit>> \o q, BSub(r, BMulSmall(d, digit)))

DivModDigit(n, d, j, q, r) ==
  IF BCmp(r, d) < 0 THEN DivModFrom(n, d, j - 1, <<0>> \o q, r)
  ELSE DivModWith(n, d, j, q, r, Digit(r, d, DigitEstimate(r, d)))

DivModFrom(n, d, j, q, r) ==
  IF j = 0 THEN <<q, r>>
  ELSE DivModDigit(n, d, j, q, Trim(<<n[j]>> \o r))

\* the quotient and the remainder of the division of n * 2^t by d * 2^t,
\* as those of n by d
Unshifted(qr, t) == <<Trim(qr[1]), BShr(qr[2], t)>>

DivModNormal(n, d, t) ==
  Unshifted(DivModFrom(n, d, Len(n) - Len(d) + 1, << >>,
                       SubSeq(n, Len(n) - Len(d) + 2, Len(n))),
            t)

\* <<n \div d, n % d>> for d > 0
BDivMod(n, d) ==
  IF BCmp(n, d) < 0 THEN <<<< >>, n>>
  ELSE DivModNormal(BShl(n, LimbBits - Bits(d[Len(d)])),
                    BShl(d, LimbBits - Bits(d[Len(d)])),
                    LimbBits - Bits(d[Len(d)]))

(***************************************************************************)
(* IEEE 754 doubles as far as the code needs them: the finite values from  *)
(* 0 up, +Infinity (x / 0 with x > 0) and NaN (0 / 0).  The v of a finite  *)
(* double is <<m, e>>, its value m * 2^e with m below 2^53 or equal to it; *)
(* the v of a reported (rounded) number is a scaled integer.  The values   *)
(* of the code are far from the subnormal range and from overflow.         *)
(***************************************************************************)
MantissaBits == 53

Num(v) == [kind |-> "num", v |-> v]

Infinity == [kind |-> "inf", v |-> 0]

NaN == [kind |-> "nan", v |-> 0]

\* the operations on doubles and the two evaluations built on them, each
\* reached through Arith by its name
RECURSIVE Arith(_, _)

\* the double nearest to (n / d) * 2^e0, ties to the even mantissa
DRound(n, d, e0) == Arith("DRound", <<n, d, e0>>)

\* the number literal n / scale of the JSON text, or parseFloat of the
\* decimal n / scale that toFixed printed
FromDecimal(n, scale) == Arith("FromDecimal", <<n, scale>>)

\* a + b
FAdd(a, b) == Arith("FAdd", <<a, b>>)

\* a - b for finite a >= b
FSub(a, b) == Arith("FSub", <<a, b>>)

\* a < b
FLess(a, b) == Arith("FLess", <<a, b>>)

\* a / b
FDiv(a, b) == Arith("FDiv", <<a, b>>)

\* x * k for an integer k below Base
FTimes(x, k) == Arith("FTimes", <<x, k>>)

\* x * 100
FTimes100(x) == FTimes(x, 100)

\* combo.reduce((sum, option) => sum + 1 / option.odds, 0) from entry i
\* of the odds of the combo on, with the sum of the entries before it
ImpliedSumFrom(odds, i, sum) == Arith("ImpliedSumFrom", <<odds, i, sum>>)

\* impliedProbabilities.reduce((sum, item) => sum + item.impliedProbability, 0)
\* from entry i of the rounded probabilities on
SumIPFrom(ips, i, sum) == Arith("SumIPFrom", <<ips, i, sum>>)

\* the numbers one turn of the loop of evaluateCombinations computes from
\* the odds of its combo
evaluateNumbers(odds) == Arith("evaluateNumbers", <<odds>>)

\* the numbers calculateArbitrageForMarket computes from the odds of the
\* entries of bestOdds
calculateNumbers(odds) == Arith("calculateNumbers", <<odds>>)

\* the quotient qr[1] of a division by den, rounded by its remainder
\* qr[2] to the nearest integer, ties to the even one, with the exponent e
Rounded(qr, den, e) ==
  IF qr[2] = << >> THEN <<qr[1], e>>
  ELSE LET half == BCmp(BShl(qr[2], 1), den)
       IN  <<IF half > 0 \/ (half = 0 /\ qr[1][1] % 2 = 1)
             THEN BAdd(qr[1], <<1>>) ELSE qr[1],
             e>>

\* (n / d) * 2^k cut to an integer and rounded
DRoundAt(n, d, e0, k) ==
  IF k >= 0 THEN Rounded(BDivMod(BShl(n, k), d), d, e0 - k)
  ELSE Rounded(BDivMod(n, BShl(d, -k)), BShl(d, -k), e0 - k)

\* (n / d) * 2^k reaches 2^53
Reaches(n, d, k) ==
  IF k >= 0 THEN BCmp(BShl(n, k), BShl(d, MantissaBits)) >= 0
  ELSE BCmp(n, BShl(d, MantissaBits - k)) >= 0

DRoundFrom(n, d, e0, k0) ==
  DRoundAt(n, d, e0, IF Reaches(n, d, k0) THEN k0 - 1 ELSE k0)

\* the quotient is scaled by 2^k into [2^52, 2^53), cut to an integer and
\* rounded by what the cut leaves
DRoundOf(n, d, e0) ==
  IF n = << >> THEN <<<< >>, 0>>
  ELSE DRoundFrom(n, d, e0, MantissaBits - BitLen(n) + BitLen(d))

FromDecimalOf(n, scale) == Num(DRound(FromInt(n), FromInt(scale), 0))

\* the two mantissas at the smaller of the two exponents
Aligned(a, b) ==
  IF a[2] < b[2] THEN <<a[1], BShl(b[1], b[2] - a[2]), a[2]>>
  ELSE <<BShl(a[1], a[2] - b[2]), b[1], b[2]>>

SumOf(al) == Num(DRound(BAdd(al[1], al[2]), <<1>>, al[3]))

\* the values are not negative: a sum with NaN is NaN, another with
\* Infinity is Infinity
FAddOf(a, b) ==
  IF a.kind = "num" /\ b.kind = "num" THEN SumOf(Aligned(a.v, b.v))
  ELSE IF a.kind = "nan" \/ b.kind = "nan" THEN NaN
  ELSE Infinity

DifferenceOf(al) == Num(DRound(BSub(al[1], al[2]), <<1>>, al[3]))

FSubOf(a, b) == DifferenceOf(Aligned(a.v, b.v))

LessOf(al) == BCmp(al[1], al[2]) < 0

\* no value is below NaN and NaN is below none
FLessOf(a, b) ==
  IF a.kind = "num" /\ b.kind = "num" THEN LessOf(Aligned(a.v, b.v))
  ELSE a.kind = "num" /\ b.kind = "inf"

FDivOf(a, b) ==
  IF a.kind = "num" /\ b.kind = "num"
  THEN IF b.v[1] = << >>
       THEN IF a.v[1] = << >> THEN NaN ELSE Infinity
       ELSE Num(DRound(a.v[1], b.v[1], a.v[2] - b.v[2]))
  ELSE IF a.kind = "inf" /\ b.kind = "num" THEN Infinity
  ELSE IF a.kind = "num" /\ b.kind = "inf" THEN Num(<<<< >>, 0>>)
  ELSE NaN

FTimesOf(x, k) ==
  IF x.kind = "num" THEN Num(DRound(BMulSmall(x.v[1], k), <<1>>, x.v[2]))
  ELSE x

\* the integer n nearest to a * scale, the larger of the two at a tie
\* (scale below Base, the result below 2^31)
Nearest(a, scale) ==
  IF a[2] >= 0 THEN ToInt(BShl(BMulSmall(a[1], scale), a[2]))
  ELSE ToInt(BShr(BAdd(BShl(BMulSmall(a[1], scale), 1), BShl(<<1>>, -a[2])),
                  1 - a[2]))

\* Math.round(y): the integer nearest to the double y, the larger of the
\* two at a tie
MathRound(y) == IF y.kind = "num" THEN Num(Nearest(y.v, 1)) ELSE y

\* utils.roundTo4: to 4 decimal places, Math.round(x * 10000) / 10000, as a
\* count of 0.0001; the product is a double, rounded before Math.round
\* sees it
roundTo4(x) == MathRound(FTimes(x, 10000))

\* utils.roundTo2: to 2 decimal places, Math.round(x * 100) / 100, as a
\* count of 0.01
roundTo2(x) == MathRound(FTimes(x, 100))

\* parseFloat(x.toFixed(4)), as a count of 0.0001: toFixed prints the
\* decimal nearest to the double, the larger of two equally near, and
\* prints "Infinity" and "NaN" as they are
toFixed4(x) == IF x.kind = "num" THEN Num(Nearest(x.v, 10000)) ELSE x

\* parseFloat(x.toFixed(2)), as a count of 0.01
toFixed2(x) == IF x.kind = "num" THEN Num(Nearest(x.v, 100)) ELSE x

\* the double of a reported number, a count n of 1 / scale: parseFloat of
\* the decimal toFixed printed, or the quotient n / scale of roundTo4 and
\* roundTo2, each the double nearest to n / scale
Reported(x, scale) == IF x.kind = "num" THEN FromDecimal(x.v, scale) ELSE x

\* 1 / odds for a price in hundredths
InvOdds(price) == FDiv(FromDecimal(1, 1), FromDecimal(price, 100))

ImpliedSumFromOf(odds, i, sum) ==
  IF i > Len(odds) THEN sum
  ELSE ImpliedSumFrom(odds, i + 1, FAdd(sum, InvOdds(odds[i])))

ImpliedSum(odds) == ImpliedSumFrom(odds, 1, FromDecimal(0, 1))

\* the numbers of an opportunity: the probabilities as counts of 0.0001
Numbers(impliedProbability, total, arbitragePercentage, betPercentage) ==
  [isArbitrage |-> TRUE,
   impliedProbability |->
     [i \in DOMAIN impliedProbability |-> impliedProbability[i].v],
   totalImpliedProbability |-> total.v,
   arbitragePercentage |-> arbitragePercentage,
   betPercentage |-> betPercentage]

evaluateNumbersOf(odds) ==
  LET impliedSum == ImpliedSum(odds)
      impliedProbability == [i \in 1..Len(odds) |-> toFixed4(InvOdds(odds[i]))]
  IN  IF ~ FLess(impliedSum, FromDecimal(1, 1))
      THEN [isArbitrage |-> FALSE]
      ELSE Numbers(impliedProbability,
                   toFixed4(impliedSum),
                   toFixed2(FTimes100(FDiv(FSub(FromDecimal(1, 1), impliedSum),
                                           impliedSum))),
                   [i \in 1..Len(odds) |->
                      toFixed2(FTimes100(FDiv(Reported(impliedProbability[i], 10000),
                                              impliedSum)))])

SumIPFromOf(ips, i, sum) ==
  IF i > Len(ips) THEN sum
  ELSE SumIPFrom(ips, i + 1, FAdd(sum, Reported(ips[i], 10000)))

SumIP(ips) == SumIPFrom(ips, 1, FromDecimal(0, 1))

calculateNumbersOf(odds) ==
  LET impliedProbability == [i \in 1..Len(odds) |-> roundTo4(InvOdds(odds[i]))]
      totalImpliedProbability == roundTo4(SumIP(impliedProbability))
      T == Reported(totalImpliedProbability, 10000)
  IN  IF \/ totalImpliedProbability.kind = "inf"
         \/ totalImpliedProbability.kind = "num" /\ totalImpliedProbability.v >= 10000
      THEN [isArbitrage |-> FALSE]
      ELSE Numbers(impliedProbability,
                   totalImpliedProbability,
                   roundTo2(FTimes100(FDiv(FSub(FromDecimal(1, 1), T), T))),
                   [i \in 1..Len(odds) |->
                      roundTo2(FTimes100(FDiv(Reported(impliedProbability[i], 10000),
                                              T)))])

Arith(op, x) ==
  CASE op = "DRound" -> DRoundOf(x[1], x[2], x[3])
    [] op = "FromDecimal" -> FromDecimalOf(x[1], x[2])
    [] op = "FAdd" -> FAddOf(x[1], x[2])
    [] op = "FSub" -> FSubOf(x[1], x[2])
    [] op = "FLess" -> FLessOf(x[1], x[2])
    [] op = "FDiv" -> FDivOf(x[1], x[2])
    [] op = "FTimes" -> FTimesOf(x[1], x[2])
    [] op = "ImpliedSumFrom" -> ImpliedSumFromOf(x[1], x[2], x[3])
    [] op = "SumIPFrom" -> SumIPFromOf(x[1], x[2], x[3])
    [] op = "evaluateNumbers" -> evaluateNumbersOf(x[1])
    [] op = "calculateNumbers" -> calculateNumbersOf(x[1])

(***************************************************************************)
(* OddsCatalog: core.ts getActiveBookmakers, getAllMarkets,                *)
(* getMarketOutcomes.                                                      *)
(***************************************************************************)
getActiveBookmakers(d) ==
  SelectSeq(AllBookmakerOrder, LAMBDA b : b \in DOMAIN d /\ d[b].bookmakerIsActive)

getAllMarkets(d, activeBookmakers) ==
  UNION {DOMAIN d[activeBookmakers[i]].markets : i \in 1..Len(activeBookmakers)}

getMarketOutcomes(marketId, d, activeBookmakers) ==
  UNION {DOMAIN d[activeBookmakers[i]].markets[marketId].outcomes :
           i \in {j \in 1..Len(activeBookmakers) :
                    marketId \in DOMAIN d[activeBookmakers[j]].markets}}

(***************************************************************************)
(* BestPriceSelector: core.ts findBestOdds.                                *)
(***************************************************************************)
\* a variant of the scan in which a later bookmaker with an equal price
\* replaces the earlier one
RECURSIVE BestScanLast(_, _, _, _, _, _)
BestScanLast(marketId, outcomeId, d, activeBookmakers, i, best) ==
  IF i > Len(activeBookmakers) THEN best
  ELSE
    LET bookmakerName == activeBookmakers[i]
        markets == d[bookmakerName].markets
        has == /\ marketId \in DOMAIN markets
               /\ outcomeId \in DOMAIN markets[marketId].outcomes
        player == markets[marketId].outcomes[outcomeId]
        next == IF has /\ player.active /\ player.price >= best.odds
                THEN [bookmaker |-> bookmakerName, odds |-> player.price]
                ELSE best
    IN  BestScanLast(marketId, outcomeId, d, activeBookmakers, i + 1, next)

\* the inner forEach over activeBookmakers for one outcome, from position i
\* with the running (bestOdd, bestBookmaker)
RECURSIVE BestScan(_, _, _, _, _, _)
BestScan(marketId, outcomeId, d, activeBookmakers, i, best) ==
  IF i > Len(activeBookmakers) THEN best
  ELSE
    LET bookmakerName == activeBookmakers[i]
        markets == d[bookmakerName].markets
        has == /\ marketId \in DOMAIN markets
               /\ outcomeId \in DOMAIN markets[marketId].outcomes
        player == markets[marketId].outcomes[outcomeId]
        next == IF has /\ player.active /\ player.price > best.odds
                THEN [bookmaker |-> bookmakerName, odds |-> player.price]
                ELSE best
    IN  BestScan(marketId, outcomeId, d, activeBookmakers, i + 1, next)

BestOf(marketId, outcomeId, d, activeBookmakers) ==
  BestScan(marketId, outcomeId, d, activeBookmakers, 1,
           [bookmaker |-> "", odds |-> 0])

findBestOdds(marketId, marketOutcomes, d, activeBookmakers) ==
  LET found == {o \in marketOutcomes :
                  BestOf(marketId, o, d, activeBookmakers).bookmaker # ""}
  IN  [o \in found |-> BestOf(marketId, o, d, activeBookmakers)]

(***************************************************************************)
(* ArbitrageEvaluator, single-best mode: core.ts                           *)
(* calculateArbitrageForMarket.  A null return is the empty sequence, an   *)
(* opportunity a sequence of one.                                          *)
(***************************************************************************)
\* calculateNumbers on the odds of the model's snapshots, computed once
CalculatedNumbers ==
  [odds \in CoreOdds \cup RunOdds \cup EdgeOdds |-> calculateNumbers(odds)] @@ << >>

NumbersOfBest(odds) ==
  IF odds \in DOMAIN CalculatedNumbers THEN CalculatedNumbers[odds]
  ELSE calculateNumbers(odds)

\* the opportunity of the entries of bestOdds, keys their outcome ids in
\* the order of Object.entries, with the numbers computed from their odds
opportunityOf(marketId, bestOdds, keys, numbers) ==
  LET impliedProbabilities ==
        [i \in 1..Len(keys) |->
           [outcomeId |-> keys[i],
            bookmaker |-> bestOdds[keys[i]].bookmaker,
            odds |-> bestOdds[keys[i]].odds,
            impliedProbability |-> numbers.impliedProbability[i]]]
      betDistribution ==
        [i \in 1..Len(keys) |->
           [outcomeId |-> impliedProbabilities[i].outcomeId,
            bookmaker |-> impliedProbabilities[i].bookmaker,
            betPercentage |-> numbers.betPercentage[i],
            requiredStake |-> numbers.betPercentage[i]]]
  IN  IF ~ numbers.isArbitrage THEN << >>
      ELSE <<[market |-> marketId,
              outcomes |-> impliedProbabilities,
              totalImpliedProbability |-> numbers.totalImpliedProbability,
              arbitragePercentage |-> numbers.arbitragePercentage,
              betDistribution |-> betDistribution]>>

opportunityOfEntries(marketId, bestOdds, keys) ==
  opportunityOf(marketId, bestOdds, keys,
                NumbersOfBest([i \in 1..Len(keys) |-> bestOdds[keys[i]].odds]))

calculateArbitrageForMarket(marketId, bestOdds) ==
  opportunityOfEntries(marketId, bestOdds, SortedSeq(DOMAIN bestOdds))

(***************************************************************************)
(* MarketAnalyzer, single-best mode: core.ts analyzeMarket.                *)
(***************************************************************************)
\* a variant of analyzeMarket without the check that every outcome has odds
analyzeMarketUnchecked(marketId, d, activeBookmakers) ==
  LET marketOutcomes == getMarketOutcomes(marketId, d, activeBookmakers)
      bestOdds == findBestOdds(marketId, marketOutcomes, d, activeBookmakers)
  IN  IF Cardinality(marketOutcomes) < 2 THEN << >>
      ELSE calculateArbitrageForMarket(marketId, bestOdds)

analyzeMarket(marketId, d, activeBookmakers) ==
  LET marketOutcomes == getMarketOutcomes(marketId, d, activeBookmakers)
      bestOdds == findBestOdds(marketId, marketOutcomes, d, activeBookmakers)
  IN  IF Cardinality(marketOutcomes) < 2 THEN << >>
      ELSE IF Cardinality(DOMAIN bestOdds) # Cardinality(marketOutcomes) THEN << >>
      ELSE calculateArbitrageForMarket(marketId, bestOdds)

(***************************************************************************)
(* TopKPriceRanker: core.ts buildTopOutcomeOddsMap.                        *)
(***************************************************************************)
\* allOdds of one outcome: the qualifying quotes in activeBookmakers order
RECURSIVE CollectOdds(_, _, _, _, _)
CollectOdds(marketId, outcomeId, d, activeBookmakers, i) ==
  IF i > Len(activeBookmakers) THEN << >>
  ELSE
    LET bookmakerName == activeBookmakers[i]
        markets == d[bookmakerName].markets
        has == /\ marketId \in DOMAIN markets
               /\ outcomeId \in DOMAIN markets[marketId].outcomes
        player == markets[marketId].outcomes[outcomeId]
        rest == CollectOdds(marketId, outcomeId, d, activeBookmakers, i + 1)
    IN  IF has /\ player.active /\ player.price > 100
        THEN <<[bookmaker |-> bookmakerName, odds |-> player.price]>> \o rest
        ELSE rest

\* x put into a list sorted by odds descending, behind every entry it does
\* not beat (Array.prototype.sort is stable)
RECURSIVE InsertByOdds(_, _)
InsertByOdds(x, sorted) ==
  IF sorted = << >> THEN <<x>>
  ELSE IF x.odds > Head(sorted).odds THEN <<x>> \o sorted
  ELSE <<Head(sorted)>> \o InsertByOdds(x, Tail(sorted))

\* allOdds.sort((a, b) => b.odds - a.odds)
RECURSIVE SortByOddsDesc(_)
SortByOddsDesc(list) ==
  IF list = << >> THEN << >>
  ELSE InsertByOdds(list[Len(list)], SortByOddsDesc(SubSeq(list, 1, Len(list) - 1)))

\* list.slice(0, n): a negative n counts from the end of the list
Slice(list, n) ==
  LET end == IF n < 0 THEN Len(list) + n ELSE n
  IN  SubSeq(list, 1, IF end < Len(list) THEN end ELSE Len(list))

buildTopOutcomeOddsMap(marketId, d, activeBookmakers, topK) ==
  [o \in getMarketOutcomes(marketId, d, activeBookmakers) |->
     Slice(SortByOddsDesc(CollectOdds(marketId, o, d, activeBookmakers, 1)), topK)]

(***************************************************************************)
(* CombinationGenerator: core.ts generateCombinations.                     *)
(***************************************************************************)
DefaultMaxCombinations == 10000

RECURSIVE TotalCombinations(_, _)
TotalCombinations(arrays, i) ==
  IF i > Len(arrays) THEN 1 ELSE Len(arrays[i]) * TotalCombinations(arrays, i + 1)

\* a variant of the step in which the earlier lists vary fastest
CrossStepEarlierFastest(acc, curr) ==
  [k \in 1..(Len(acc) * Len(curr)) |->
     Append(acc[((k - 1) % Len(acc)) + 1], curr[((k - 1) \div Len(acc)) + 1])]

\* acc.flatMap(a => curr.map(b => [...a, b]))
CrossStep(acc, curr) ==
  [k \in 1..(Len(acc) * Len(curr)) |->
     Append(acc[((k - 1) \div Len(curr)) + 1], curr[((k - 1) % Len(curr)) + 1])]

\* arrays.reduce(..., [[]]) over the first n lists
RECURSIVE CrossProduct(_, _)
CrossProduct(arrays, n) ==
  IF n = 0 THEN << << >> >>
  ELSE CrossStep(CrossProduct(arrays, n - 1), arrays[n])

\* a variant of the abort test that also aborts at the cap itself
ExceedsOrReaches(totalCombinations, maxCombinations) ==
  totalCombinations >= maxCombinations

\* the abort test of generateCombinations
Exceeds(totalCombinations, maxCombinations) == totalCombinations > maxCombinations

generateCombinations(arrays, maxCombinations) ==
  IF Exceeds(TotalCombinations(arrays, 1), maxCombinations) THEN << >>
  ELSE CrossProduct(arrays, Len(arrays))

(***************************************************************************)
(* ArbitrageEvaluator, top-K mode: core.ts evaluateCombinations.           *)
(***************************************************************************)
\* evaluateNumbers on the odds of the model's snapshots, computed once
EvaluatedNumbers ==
  [odds \in CoreOdds \cup RunOdds \cup EdgeOdds |-> evaluateNumbers(odds)] @@ << >>

NumbersOfCombo(combo) ==
  LET odds == [i \in 1..Len(combo) |-> combo[i].odds]
  IN  IF odds \in DOMAIN EvaluatedNumbers THEN EvaluatedNumbers[odds]
      ELSE evaluateNumbers(odds)

\* a variant of the evaluation that names the outcomes in reverse order
evaluatedReversed(marketId, outcomeIds, combo, includeBetDistribution, numbers) ==
  LET outcomes ==
        [i \in 1..Len(combo) |->
           [outcomeId |-> outcomeIds[Len(combo) + 1 - i],
            bookmaker |-> combo[i].bookmaker,
            odds |-> combo[i].odds,
            impliedProbability |-> numbers.impliedProbability[i]]]
  IN  IF numbers.isArbitrage
      THEN <<[market |-> marketId,
              outcomes |-> outcomes,
              totalImpliedProbability |-> numbers.totalImpliedProbability,
              arbitragePercentage |-> numbers.arbitragePercentage,
              betDistribution |-> << >>]>>
      ELSE << >>

evaluateOneReversed(marketId, outcomeIds, combo, includeBetDistribution) ==
  evaluatedReversed(marketId, outcomeIds, combo, includeBetDistribution,
                    NumbersOfCombo(combo))

\* the opportunity of a combo, if it is one, with the numbers computed
\* from its odds
evaluated(marketId, outcomeIds, combo, includeBetDistribution, numbers) ==
  LET outcomes ==
        [i \in 1..Len(combo) |->
           [outcomeId |-> outcomeIds[i],
            bookmaker |-> combo[i].bookmaker,
            odds |-> combo[i].odds,
            impliedProbability |-> numbers.impliedProbability[i]]]
      betDistribution ==
        IF includeBetDistribution
        THEN [i \in 1..Len(combo) |->
                [outcomeId |-> outcomes[i].outcomeId,
                 bookmaker |-> outcomes[i].bookmaker,
                 betPercentage |-> numbers.betPercentage[i],
                 requiredStake |-> numbers.betPercentage[i]]]
        ELSE << >>
  IN  IF numbers.isArbitrage
      THEN <<[market |-> marketId,
              outcomes |-> outcomes,
              totalImpliedProbability |-> numbers.totalImpliedProbability,
              arbitragePercentage |-> numbers.arbitragePercentage,
              betDistribution |-> betDistribution]>>
      ELSE << >>

\* one turn of the loop over combos
evaluateOne(marketId, outcomeIds, combo, includeBetDistribution) ==
  evaluated(marketId, outcomeIds, combo, includeBetDistribution,
            NumbersOfCombo(combo))

RECURSIVE evaluateFrom(_, _, _, _, _)
evaluateFrom(marketId, outcomeIds, combos, includeBetDistribution, i) ==
  IF i > Len(combos) THEN << >>
  ELSE evaluateOne(marketId, outcomeIds, combos[i], includeBetDistribution)
         \o evaluateFrom(marketId, outcomeIds, combos, includeBetDistribution, i + 1)

evaluateCombinations(marketId, outcomeIds, combos, includeBetDistribution) ==
  evaluateFrom(marketId, outcomeIds, combos, includeBetDistribution, 1)

(***************************************************************************)
(* MarketAnalyzer, top-K mode: core.ts analyzeMarketTopK.                  *)
(***************************************************************************)
Min(a, b) == IF a < b THEN a ELSE b

Max(a, b) == IF a > b THEN a ELSE b

\* Math.min(Math.max(topk || 3, 1), 3); 0 stands for 0 and for a missing field
ClampTopk(topk) == Min(Max(IF topk = 0 THEN 3 ELSE topk, 1), 3)

\* a variant of the maxResults clamp without the upper limit
ClampMaxResultsBelowOnly(maxResults) == Max(IF maxResults = 0 THEN 5 ELSE maxResults, 1)

\* Math.min(Math.max(maxResults || 5, 1), 5)
ClampMaxResults(maxResults) == Min(Max(IF maxResults = 0 THEN 5 ELSE maxResults, 1), 5)

\* b - a > 0 for two reported percentages (Infinity - Infinity is NaN)
FGreater(b, a) ==
  \/ b.kind = "num" /\ a.kind = "num" /\ b.v > a.v
  \/ b.kind = "inf" /\ a.kind = "num"

RECURSIVE InsertByArb(_, _)
InsertByArb(x, sorted) ==
  IF sorted = << >> THEN <<x>>
  ELSE IF FGreater(x.arbitragePercentage, Head(sorted).arbitragePercentage)
       THEN <<x>> \o sorted
  ELSE <<Head(sorted)>> \o InsertByArb(x, Tail(sorted))

\* a variant of the sort that leaves the evaluation order as it is
SortByArbDescNot(list) == list

\* opportunities.sort((a, b) => b.arbitragePercentage - a.arbitragePercentage)
RECURSIVE SortByArbDesc(_)
SortByArbDesc(list) ==
  IF list = << >> THEN << >>
  ELSE InsertByArb(list[Len(list)], SortByArbDesc(SubSeq(list, 1, Len(list) - 1)))

analyzeMarketTopK(marketId, d, activeBookmakers, options) ==
  LET topk == ClampTopk(options.topk)
      maxResults == ClampMaxResults(options.maxResults)
      outcomeOdds == buildTopOutcomeOddsMap(marketId, d, activeBookmakers, topk)
      outcomeIds == SortedSeq(DOMAIN outcomeOdds)
      oddsArrays == [i \in 1..Len(outcomeIds) |-> outcomeOdds[outcomeIds[i]]]
      allCombinations == generateCombinations(oddsArrays, DefaultMaxCombinations)
      opportunities ==
        evaluateCombinations(marketId, outcomeIds, allCombinations,
                             options.includeBetDistribution)
  IN  Slice(SortByArbDesc(opportunities), maxResults)

(***************************************************************************)
(* The state machine.  oddsData is the snapshot handed to the core; call   *)
(* is the operation in progress with its arguments and result its return   *)
(* value.  Every operation is called on the loaded snapshot and returns.   *)
(* heap holds the objects of the calls that are made by reference (see     *)
(* "The core operations on objects" below) and is empty where the calls    *)
(* are made by value.                                                      *)
(***************************************************************************)
Cells == BookmakerNames \X OutcomeIds

CellSets == {S \in SUBSET Cells : Cardinality(S) <= MaxQuotes}

\* the snapshot in which the bookmakers of carry list the market, the cells
\* of S hold the quotes q and act is the activity flag of each bookmaker
Snapshot(S, q, act, carry) ==
  [b \in BookmakerNames |->
     [bookmakerIsActive |-> act[b],
      markets |->
        [m \in (IF b \in carry THEN MarketIds ELSE {}) |->
           [outcomes |-> [o \in {x \in OutcomeIds : <<b, x>> \in S} |-> q[<<b, o>>]]]]]]

Idle == [fn |-> "idle"]

\* the argument lists the callers pass as activeBookmakers: the result of
\* getActiveBookmakers (index.ts) and every bookmaker name (core.test.ts)
BookmakerLists(d) == {getActiveBookmakers(d), BookmakerOrder}

\* options of analyzeMarketTopK: its defaults, the ones calculateArbitrage
\* passes, a single-result request, requests outside the ranges of topk and
\* maxResults, and a request that configures a combination cap of its own
\* (a field analyzeMarketTopK does not read)
TopKOptions ==
  {[topk |-> 3, maxResults |-> 5, includeBetDistribution |-> FALSE,
    combinationCap |-> DefaultMaxCombinations],
   [topk |-> 2, maxResults |-> 20, includeBetDistribution |-> TRUE,
    combinationCap |-> DefaultMaxCombinations],
   [topk |-> 1, maxResults |-> 1, includeBetDistribution |-> TRUE,
    combinationCap |-> DefaultMaxCombinations],
   [topk |-> 10, maxResults |-> 20, includeBetDistribution |-> FALSE,
    combinationCap |-> DefaultMaxCombinations],
   [topk |-> 0, maxResults |-> 0, includeBetDistribution |-> FALSE,
    combinationCap |-> DefaultMaxCombinations],
   [topk |-> -1, maxResults |-> -1, includeBetDistribution |-> FALSE,
    combinationCap |-> DefaultMaxCombinations],
   [topk |-> 3, maxResults |-> 5, includeBetDistribution |-> FALSE,
    combinationCap |-> 1]}

Init ==
  \E S \in CellSets :
    \E q \in [S -> QuoteOptions], act \in [BookmakerNames -> BOOLEAN],
       carry \in SUBSET BookmakerNames :
      /\ \A c \in S : c[1] \in carry
      /\ oddsData = Snapshot(S, q, act, carry)
      /\ call = Idle
      /\ result = << >>
      /\ heap = << >>

GetActiveBookmakers ==
  /\ call.fn = "idle"
  /\ call' = [fn |-> "getActiveBookmakers"]
  /\ result' = getActiveBookmakers(oddsData)
  /\ UNCHANGED <<oddsData, heap>>

GetAllMarkets ==
  /\ call.fn = "idle"
  /\ \E list \in BookmakerLists(oddsData) :
       /\ call' = [fn |-> "getAllMarkets", activeBookmakers |-> list]
       /\ result' = getAllMarkets(oddsData, list)
  /\ UNCHANGED <<oddsData, heap>>

GetMarketOutcomes ==
  /\ call.fn = "idle"
  /\ \E m \in MarketIds, list \in BookmakerLists(oddsData) :
       /\ call' = [fn |-> "getMarketOutcomes", marketId |-> m,
                   activeBookmakers |-> list]
       /\ result' = getMarketOutcomes(m, oddsData, list)
  /\ UNCHANGED <<oddsData, heap>>

FindBestOdds ==
  /\ call.fn = "idle"
  /\ \E m \in MarketIds :
       LET active == getActiveBookmakers(oddsData)
       IN  /\ call' = [fn |-> "findBestOdds", marketId |-> m]
           /\ result' = findBestOdds(m, getMarketOutcomes(m, oddsData, active),
                                     oddsData, active)
  /\ UNCHANGED <<oddsData, heap>>

\* the values of topK buildTopOutcomeOddsMap is called with: the range of
\* analyzeMarketTopK and a larger one
TopKs == {1, 2, 3, 10}

BuildTopOutcomeOddsMap ==
  /\ call.fn = "idle"
  /\ \E m \in MarketIds, k \in TopKs :
       /\ call' = [fn |-> "buildTopOutcomeOddsMap", marketId |-> m, topK |-> k]
       /\ result' = buildTopOutcomeOddsMap(m, oddsData,
                                           getActiveBookmakers(oddsData), k)
  /\ UNCHANGED <<oddsData, heap>>

AnalyzeMarket ==
  /\ call.fn = "idle"
  /\ \E m \in MarketIds :
       /\ call' = [fn |-> "analyzeMarket", marketId |-> m]
       /\ result' = analyzeMarket(m, oddsData, getActiveBookmakers(oddsData))
  /\ UNCHANGED <<oddsData, heap>>

AnalyzeMarketTopK ==
  /\ call.fn = "idle"
  /\ \E m \in MarketIds, options \in TopKOptions :
       /\ call' = [fn |-> "analyzeMarketTopK", marketId |-> m, options |-> options]
       /\ result' = analyzeMarketTopK(m, oddsData, getActiveBookmakers(oddsData),
                                      options)
  /\ UNCHANGED <<oddsData, heap>>

Return ==
  /\ call.fn # "idle"
  /\ call' = Idle
  /\ result' = << >>
  /\ UNCHANGED <<oddsData, heap>>

Next ==
  \/ GetActiveBookmakers
  \/ GetAllMarkets
  \/ GetMarketOutcomes
  \/ FindBestOdds
  \/ BuildTopOutcomeOddsMap
  \/ AnalyzeMarket
  \/ AnalyzeMarketTopK
  \/ Return

Spec == Init /\ [][Next]_vars

(***************************************************************************)
(* generateCombinations on its own: the lists and the cap are drawn from   *)
(* bounded sets and the generator is applied to them.  The j-th element of *)
(* list i is <<i, j>>.                                                     *)
(***************************************************************************)
NoBookmakerData ==
  [b \in BookmakerNames |-> [bookmakerIsActive |-> FALSE, markets |-> EmptyMap]]

ListOfLen(i, n) == [j \in 1..n |-> <<i, j>>]

GenArrays ==
  UNION {{[i \in 1..n |-> ListOfLen(i, lens[i])] : lens \in [1..n -> 0..MaxListLen]} :
           n \in 0..MaxLists}

GenCaps == (0..MaxCap) \cup {DefaultMaxCombinations}

InitGen ==
  \E arrays \in GenArrays, cap \in GenCaps :
    /\ oddsData = NoBookmakerData
    /\ call = [fn |-> "input", arrays |-> arrays, maxCombinations |-> cap]
    /\ result = << >>
    /\ heap = << >>

GenerateCombinations ==
  /\ call.fn = "input"
  /\ call' = [call EXCEPT !.fn = "generateCombinations"]
  /\ result' = generateCombinations(call.arrays, call.maxCombinations)
  /\ UNCHANGED <<oddsData, heap>>

NextGen == GenerateCombinations

SpecGen == InitGen /\ [][NextGen]_vars

(***************************************************************************)
(* calculateArbitrage (index.ts): one run loads the snapshot, prepares the *)
(* catalog, analyses the markets one after the other and builds the        *)
(* result.  A loaded snapshot is a record with the fixture id and, unless  *)
(* malformed, the bookmakerOdds mapping; a bookmaker may lack its markets  *)
(* field and a market its outcomes field.  A failed run returns a record   *)
(* with the error label of the catch clause and the cause it wraps.        *)
(***************************************************************************)
RunMarketIds == {101, 102}

Quote(price) == [active |-> TRUE, price |-> price]

\* the market of core.test.ts: 2.2 on each of two outcomes
Market22 == [outcomes |-> (1 :> Quote(220) @@ 2 :> Quote(220))]

\* 1.82 and 2.22: 1/1.82 + 1/2.22 = 0.99990...
MarketNear == [outcomes |-> (1 :> Quote(182) @@ 2 :> Quote(222))]

\* three outcomes at 30.0
MarketWide == [outcomes |-> (1 :> Quote(3000) @@ 2 :> Quote(3000) @@ 3 :> Quote(3000))]

\* a market without its outcomes field
MarketNoOutcomes == [bookmakerMarketId |-> "id"]

MarketForms == {Market22, MarketNear, MarketWide, MarketNoOutcomes}

RunCells == BookmakerNames \X RunMarketIds

RunCellSets == {S \in SUBSET RunCells : Cardinality(S) <= MaxCarried}

BookmakerShapes == {"absent", "nomarkets", "active", "inactive"}

\* the bookmakerOdds mapping in which the cells of S hold the markets f and
\* shape tells, for each bookmaker, whether it is listed, whether it is
\* active and whether it has its markets field
RunBookmakers(S, f, shape) ==
  [b \in {x \in BookmakerNames : shape[x] # "absent"} |->
     IF shape[b] = "nomarkets"
     THEN [bookmakerIsActive |-> TRUE]
     ELSE [bookmakerIsActive |-> (shape[b] = "active"),
           markets |-> [m \in {x \in RunMarketIds : <<b, x>> \in S} |-> f[<<b, m>>]]]]

RunBookmakerMaps ==
  UNION {{RunBookmakers(S, f, shape) :
            f \in [S -> MarketForms],
            shape \in {sh \in [BookmakerNames -> BookmakerShapes] :
                         \A c \in S : sh[c[1]] \in {"active", "inactive"}}} :
           S \in RunCellSets}

\* the contents the local file can have
FileData ==
  {[fixtureId |-> "file", bookmakerOdds |-> bm] : bm \in RunBookmakerMaps}
    \cup {[fixtureId |-> "file"]}

FileStates ==
  {[ok |-> TRUE, data |-> x] : x \in FileData}
    \cup {[ok |-> FALSE, kind |-> k] : k \in {"ENOENT", "SyntaxError"}}

\* the snapshot the API answers with
ApiData ==
  [fixtureId |-> "id1",
   bookmakerOdds |->
     ("b1" :> [bookmakerIsActive |-> TRUE, markets |-> (101 :> Market22)])]

ApiFailures == {"http", "network", "timeout"}

ApiStates ==
  {[ok |-> TRUE, data |-> ApiData]} \cup {[ok |-> FALSE, kind |-> k] : k \in ApiFailures}

\* the accesses to the two data sources, as they are made
FileRead == [source |-> "file", path |-> "./src/market-data.json"]

ApiRequest(fixtureId) ==
  [source |-> "api", path |-> "/v4/odds", fixtureId |-> fixtureId,
   oddsFormat |-> "decimal", verbosity |-> 3]

\* readFileSync and JSON.parse of the local file
loadOddsDataFromFile(file) ==
  IF file.ok THEN [ok |-> TRUE, data |-> file.data, accesses |-> <<FileRead>>]
  ELSE IF file.kind = "ENOENT"
       THEN [ok |-> FALSE, cause |-> "Odds data file not found",
             accesses |-> <<FileRead>>]
       ELSE [ok |-> FALSE, cause |-> "Failed to load odds data",
             accesses |-> <<FileRead>>]

\* a variant of fetchMarketOddsFromAPI that lets the request's failure out
fetchMarketOddsFromAPINoFallback(fixtureId, api, file) ==
  IF api.ok
  THEN [ok |-> TRUE, data |-> api.data, accesses |-> <<ApiRequest(fixtureId)>>]
  ELSE [ok |-> FALSE, cause |-> api.kind, accesses |-> <<ApiRequest(fixtureId)>>]

fetchMarketOddsFromAPI(fixtureId, api, file) ==
  IF api.ok
  THEN [ok |-> TRUE, data |-> api.data, accesses |-> <<ApiRequest(fixtureId)>>]
  ELSE [loadOddsDataFromFile(file) EXCEPT !.accesses = <<ApiRequest(fixtureId)>> \o @]

\* a variant of loadOddsData that asks the API whatever the fixture id
loadOddsDataAlwaysApi(fixtureId, api, file) ==
  fetchMarketOddsFromAPI(fixtureId, api, file)

\* fixtureId "" stands for an absent (or empty) fixture id
loadOddsData(fixtureId, api, file) ==
  IF fixtureId # "" THEN fetchMarketOddsFromAPI(fixtureId, api, file)
  ELSE loadOddsDataFromFile(file)

\* !oddsData.bookmakerOdds || Object.keys(oddsData.bookmakerOdds).length === 0
NoBookmakerOdds(data) ==
  \/ "bookmakerOdds" \notin DOMAIN data
  \/ DOMAIN data.bookmakerOdds = {}

\* Object.keys(bookmaker.markets) of getAllMarkets throws a TypeError
getAllMarketsThrows(d, activeBookmakers) ==
  \E i \in 1..Len(activeBookmakers) : "markets" \notin DOMAIN d[activeBookmakers[i]]

\* the iteration order of the Set getAllMarkets returns: first insertion,
\* the market ids of one bookmaker in ascending order
RECURSIVE MarketOrderFrom(_, _, _, _)
MarketOrderFrom(d, activeBookmakers, i, seen) ==
  IF i > Len(activeBookmakers) THEN << >>
  ELSE LET own == DOMAIN d[activeBookmakers[i]].markets
       IN  SortedSeq(own \ seen)
             \o MarketOrderFrom(d, activeBookmakers, i + 1, seen \cup own)

MarketOrder(d, activeBookmakers) == MarketOrderFrom(d, activeBookmakers, 1, {})

\* Object.keys(bookmaker.markets[marketId].outcomes) of getMarketOutcomes
\* throws a TypeError
getMarketOutcomesThrows(marketId, d, activeBookmakers) ==
  \E i \in 1..Len(activeBookmakers) :
    /\ marketId \in DOMAIN d[activeBookmakers[i]].markets
    /\ "outcomes" \notin DOMAIN d[activeBookmakers[i]].markets[marketId]

\* topk && topk > 1; 0 stands for 0 and for an absent topk
UsesTopK(topk) == topk # 0 /\ topk > 1

\* the options calculateArbitrage passes to analyzeMarketTopK
RunOptions(topk) ==
  [topk |-> (IF topk = 0 THEN 3 ELSE topk), maxResults |-> 20,
   includeBetDistribution |-> TRUE, combinationCap |-> DefaultMaxCombinations]

\* the body of the loop over allMarkets for one market
analyzeOne(marketId, d, activeBookmakers, topk) ==
  IF UsesTopK(topk)
  THEN analyzeMarketTopK(marketId, d, activeBookmakers, RunOptions(topk))
  ELSE analyzeMarket(marketId, d, activeBookmakers)

\* a variant of the analysis part of the result that counts the markets
\* with an opportunity
analysisOfFound(allMarkets, activeBookmakers, opportunities) ==
  [analyzedMarkets |->
     Cardinality({opportunities[i].market : i \in 1..Len(opportunities)}),
   totalActiveBookmakers |-> Len(activeBookmakers),
   totalOpportunities |-> Len(opportunities),
   opportunities |-> opportunities]

\* the analysis part of the result
analysisOf(allMarkets, activeBookmakers, opportunities) ==
  [analyzedMarkets |-> Len(allMarkets),
   totalActiveBookmakers |-> Len(activeBookmakers),
   totalOpportunities |-> Len(opportunities),
   opportunities |-> opportunities]

\* the error of the catch clause around the whole run
Failure(cause) == [error |-> "Arbitrage calculation failed", cause |-> cause]

RunTopks == {0, 1, 3}

Times == 1..MaxTime

\* what another callback can leave of the local file while a request to the
\* API is pending: nothing, or a snapshot of its own
RewrittenFile ==
  [ok |-> TRUE,
   data |-> [fixtureId |-> "file",
             bookmakerOdds |->
               ("b2" :> [bookmakerIsActive |-> TRUE, markets |-> (102 :> MarketNear)])]]

ChangedFiles == {[ok |-> FALSE, kind |-> "ENOENT"], RewrittenFile}

\* the call of calculateArbitrage at its start: its arguments, the world it
\* runs in (the API's answer, the local file as it is now, and the clock
\* reading, the result and the snapshot of the last run) and its local
\* variables
StartRun(fixtureId, topk, api, file, run, previous, after) ==
  [fn |-> "calculateArbitrage", pc |-> "load",
   fixtureId |-> fixtureId, topk |-> topk,
   api |-> api, file |-> file,
   run |-> run, previous |-> previous, after |-> after,
   data |-> [fixtureId |-> ""], accesses |-> << >>,
   activeBookmakers |-> << >>, allMarkets |-> << >>,
   i |-> 0, opportunities |-> << >>]

InitRun ==
  \E fixtureId \in {"", "id1"}, topk \in RunTopks, api \in ApiStates,
     file \in FileStates :
    /\ fixtureId = "" => api = [ok |-> FALSE, kind |-> "network"]
    /\ oddsData = EmptyMap
    /\ call = StartRun(fixtureId, topk, api, file, 1, << >>, 1)
    /\ result = << >>
    /\ heap = << >>

Fail(cause) ==
  /\ call' = [call EXCEPT !.pc = "done"]
  /\ result' = Failure(cause)

\* the await of loadOddsData(fixtureId) is over: the snapshot goes to
\* oddsData, a failure to the catch clause of the run
Loaded(loaded) ==
  IF loaded.ok
  THEN /\ call' = [call EXCEPT !.pc = "prepare", !.data = loaded.data,
                               !.accesses = loaded.accesses]
       /\ oddsData' = IF "bookmakerOdds" \in DOMAIN loaded.data
                      THEN loaded.data.bookmakerOdds ELSE EmptyMap
       /\ UNCHANGED <<result, heap>>
  ELSE /\ call' = [call EXCEPT !.pc = "done", !.accesses = loaded.accesses]
       /\ result' = Failure(loaded.cause)
       /\ UNCHANGED <<oddsData, heap>>

\* const oddsData = await loadOddsData(fixtureId), up to its first await:
\* without a fixture id the file is read at once; with one the request is
\* sent and the call waits for the response (await axios.get)
LoadOddsData ==
  /\ call.fn = "calculateArbitrage"
  /\ call.pc = "load"
  /\ IF call.fixtureId # ""
     THEN /\ call' = [call EXCEPT !.pc = "awaiting",
                                  !.accesses = <<ApiRequest(call.fixtureId)>>]
          /\ UNCHANGED <<oddsData, result, heap>>
     ELSE Loaded(loadOddsData(call.fixtureId, call.api, call.file))

\* while the request is pending another callback removes or rewrites the
\* local file
FileChanges ==
  /\ call.fn = "calculateArbitrage"
  /\ call.pc = "awaiting"
  /\ \E file \in ChangedFiles \ {call.file} : call' = [call EXCEPT !.file = file]
  /\ UNCHANGED <<oddsData, result, heap>>

\* the request settles: its response is returned, or the catch clause
\* reads the local file as it is by then
RequestSettles ==
  /\ call.fn = "calculateArbitrage"
  /\ call.pc = "awaiting"
  /\ Loaded(loadOddsData(call.fixtureId, call.api, call.file))

\* the check of bookmakerOdds, getActiveBookmakers and getAllMarkets
Prepare ==
  /\ call.fn = "calculateArbitrage"
  /\ call.pc = "prepare"
  /\ LET activeBookmakers == getActiveBookmakers(oddsData)
     IN  IF NoBookmakerOdds(call.data)
         THEN Fail("No bookmaker odds data available")
         ELSE IF getAllMarketsThrows(oddsData, activeBookmakers)
         THEN Fail("TypeError")
         ELSE /\ call' = [call EXCEPT
                            !.pc = "analyze",
                            !.activeBookmakers = activeBookmakers,
                            !.allMarkets = MarketOrder(oddsData, activeBookmakers)]
              /\ UNCHANGED result
  /\ UNCHANGED <<oddsData, heap>>

\* one turn of allMarkets.forEach
AnalyzeNextMarket ==
  /\ call.fn = "calculateArbitrage"
  /\ call.pc = "analyze"
  /\ call.i < Len(call.allMarkets)
  /\ LET marketId == call.allMarkets[call.i + 1]
     IN  IF getMarketOutcomesThrows(marketId, oddsData, call.activeBookmakers)
         THEN /\ call' = [call EXCEPT !.pc = "done", !.i = @ + 1]
              /\ result' = Failure("TypeError")
         ELSE /\ call' = [call EXCEPT
                            !.i = @ + 1,
                            !.opportunities =
                               @ \o analyzeOne(marketId, oddsData, call.activeBookmakers,
                                               call.topk)]
              /\ UNCHANGED result
  /\ UNCHANGED <<oddsData, heap>>

\* the structured result, stamped with the time of the call
Complete ==
  /\ call.fn = "calculateArbitrage"
  /\ call.pc = "analyze"
  /\ call.i = Len(call.allMarkets)
  /\ \E now \in {t \in Times : t >= call.after} :
       /\ call' = [call EXCEPT !.pc = "done", !.after = now]
       /\ result' = [fixture |-> [fixtureId |-> call.data.fixtureId],
                     analysis |-> analysisOf(call.allMarkets, call.activeBookmakers,
                                             call.opportunities),
                     timestamp |-> now]
  /\ UNCHANGED <<oddsData, heap>>

\* a second run with the same arguments in the same world
RunAgain ==
  /\ call.fn = "calculateArbitrage"
  /\ call.pc = "done"
  /\ call.run = 1
  /\ call' = StartRun(call.fixtureId, call.topk, call.api, call.file,
                      2, <<[result |-> result, data |-> call.data]>>, call.after)
  /\ oddsData' = EmptyMap
  /\ result' = << >>
  /\ UNCHANGED heap

NextRun ==
  \/ LoadOddsData
  \/ FileChanges
  \/ RequestSettles
  \/ Prepare
  \/ AnalyzeNextMarket
  \/ Complete
  \/ RunAgain

SpecRun == InitRun /\ [][NextRun]_vars

(***************************************************************************)
(* The core operations on a market that four active bookmakers carry: two  *)
(* outcomes, each bookmaker quoting an outcome at 3.0, at 30.0 or not at   *)
(* all.                                                                    *)
(***************************************************************************)
WideNames == {AllBookmakerOrder[i] : i \in 1..Len(AllBookmakerOrder)}

WideOutcomeIds == {1, 2}

WidePrices == {300, 3000}

WideSnapshot(S, q) ==
  [b \in WideNames |->
     [bookmakerIsActive |-> TRUE,
      markets |->
        [m \in MarketIds |->
           [outcomes |-> [o \in {x \in WideOutcomeIds : <<b, x>> \in S} |-> q[<<b, o>>]]]]]]

InitWide ==
  \E S \in SUBSET (WideNames \X WideOutcomeIds) :
    \E q \in [S -> {Quote(p) : p \in WidePrices}] :
      /\ oddsData = WideSnapshot(S, q)
      /\ call = Idle
      /\ result = << >>
      /\ heap = << >>

SpecWide == InitWide /\ [][Next]_vars

(***************************************************************************)
(* The core operations on a market of two outcomes that three active       *)
(* bookmakers carry at the prices of EdgePrices: the implied sums of its   *)
(* combinations lie below 1, above 1 and at 1.                             *)
(***************************************************************************)
EdgeNames == {"b1", "b2", "b3"}

EdgeCells == EdgeNames \X {1, 2}

EdgeSnapshot(S, q) ==
  [b \in EdgeNames |->
     [bookmakerIsActive |-> TRUE,
      markets |->
        [m \in MarketIds |->
           [outcomes |-> [o \in {x \in {1, 2} : <<b, x>> \in S} |-> Quote(q[<<b, o>>])]]]]]

InitEdge ==
  \E S \in SUBSET EdgeCells :
    \E q \in [S -> EdgePrices[1] \cup EdgePrices[2]] :
      /\ \A c \in S : q[c] \in EdgePrices[c[2]]
      /\ oddsData = EdgeSnapshot(S, q)
      /\ call = Idle
      /\ result = << >>
      /\ heap = << >>

SpecEdge == InitEdge /\ [][Next]_vars

(***************************************************************************)
(* The core operations on objects.  An array, a Set or an object of the    *)
(* program is a cell of heap and is known by its address, its index in     *)
(* heap: a call is handed addresses and returns one.  What works in place  *)
(* (Set.add, push, sort, the assignment to a key) writes the cell its      *)
(* receiver names; a literal, new Set, Object.keys, filter, map and slice  *)
(* make a new cell.  The snapshot is one cell with the bookmakers, markets *)
(* and outcomes in it.  An object that core.ts never writes once it is     *)
(* built, and that is no argument of an exported operation (an OddsOption, *)
(* a combination, an opportunity in a list), is held by value in the cell  *)
(* of its holder; so are the arrays that only pass from one method of a    *)
(* chain to the next.  Every operation reads its arguments as they are in  *)
(* heap when it is called.                                                 *)
(***************************************************************************)
\* the address null
Null == 0

\* a new object: the heap with it, and its address
New(h, type, v) == [heap |-> Append(h, [type |-> type, v |-> v]), ret |-> Len(h) + 1]

\* the object at address a, written in place
Write(h, a, v) == [h EXCEPT ![a].v = v]

getActiveBookmakersOn(h, data) ==
  New(h, "activeBookmakers", getActiveBookmakers(h[data].v))

getAllMarketsOn(h, data, activeBookmakers) ==
  LET allMarkets == New(h, "Set", {})
  IN  [heap |-> Write(allMarkets.heap, allMarkets.ret,
                      getAllMarkets(h[data].v, h[activeBookmakers].v)),
       ret |-> allMarkets.ret]

\* a variant of getMarketOutcomes that takes the bookmakers off the list as
\* it visits them (activeBookmakers.shift())
getMarketOutcomesOnShifting(h, marketId, data, activeBookmakers) ==
  LET marketOutcomes == New(h, "Set", {})
      added == Write(marketOutcomes.heap, marketOutcomes.ret,
                     getMarketOutcomes(marketId, h[data].v, h[activeBookmakers].v))
  IN  [heap |-> Write(added, activeBookmakers, << >>), ret |-> marketOutcomes.ret]

getMarketOutcomesOn(h, marketId, data, activeBookmakers) ==
  LET marketOutcomes == New(h, "Set", {})
  IN  [heap |-> Write(marketOutcomes.heap, marketOutcomes.ret,
                      getMarketOutcomes(marketId, h[data].v, h[activeBookmakers].v)),
       ret |-> marketOutcomes.ret]

findBestOddsOn(h, marketId, marketOutcomes, data, activeBookmakers) ==
  LET bestOdds == New(h, "bestOdds", EmptyMap)
  IN  [heap |-> Write(bestOdds.heap, bestOdds.ret,
                      findBestOdds(marketId, h[marketOutcomes].v, h[data].v,
                                   h[activeBookmakers].v)),
       ret |-> bestOdds.ret]

\* analyzeMarket from the call of findBestOdds on
analyzeMarketFound(marketId, marketOutcomes, bestOdds) ==
  LET h == bestOdds.heap
      opportunity == calculateArbitrageForMarket(marketId, h[bestOdds.ret].v)
  IN  IF Cardinality(DOMAIN h[bestOdds.ret].v) # Cardinality(h[marketOutcomes].v)
      THEN [heap |-> h, ret |-> Null]
      ELSE IF opportunity = << >> THEN [heap |-> h, ret |-> Null]
      ELSE New(h, "opportunity", opportunity[1])

analyzeMarketOn(h, marketId, data, activeBookmakers) ==
  LET marketOutcomes == getMarketOutcomesOn(h, marketId, data, activeBookmakers)
  IN  IF Cardinality(marketOutcomes.heap[marketOutcomes.ret].v) < 2
      THEN [heap |-> marketOutcomes.heap, ret |-> Null]
      ELSE analyzeMarketFound(marketId, marketOutcomes.ret,
                              findBestOddsOn(marketOutcomes.heap, marketId,
                                             marketOutcomes.ret, data,
                                             activeBookmakers))

\* one turn of the loop over marketOutcomes: allOdds is filled, sorted in
\* place and sliced, and the slice goes into outcomesOdds
rankOutcome(h, marketId, outcomeId, data, activeBookmakers, topK, outcomesOdds) ==
  LET allOdds == New(h, "allOdds", << >>)
      pushed == Write(allOdds.heap, allOdds.ret,
                      CollectOdds(marketId, outcomeId, h[data].v,
                                  h[activeBookmakers].v, 1))
      sorted == Write(pushed, allOdds.ret, SortByOddsDesc(pushed[allOdds.ret].v))
      top == New(sorted, "candidates", Slice(sorted[allOdds.ret].v, topK))
  IN  Write(top.heap, outcomesOdds,
            (outcomeId :> top.ret) @@ top.heap[outcomesOdds].v)

\* the loop over marketOutcomes from its i-th outcome on
RECURSIVE rankOutcomesFrom(_, _, _, _, _, _, _, _)
rankOutcomesFrom(h, marketId, outcomeIds, i, data, activeBookmakers, topK, outcomesOdds) ==
  IF i > Len(outcomeIds) THEN h
  ELSE rankOutcomesFrom(rankOutcome(h, marketId, outcomeIds[i], data,
                                    activeBookmakers, topK, outcomesOdds),
                        marketId, outcomeIds, i + 1, data, activeBookmakers,
                        topK, outcomesOdds)

\* buildTopOutcomeOddsMap from the call of getMarketOutcomes on
buildTopOutcomeOddsMapRanked(marketOutcomes, outcomesOdds, marketId, data, activeBookmakers, topK) ==
  [heap |-> rankOutcomesFrom(outcomesOdds.heap, marketId,
                             SortedSeq(outcomesOdds.heap[marketOutcomes.ret].v), 1,
                             data, activeBookmakers, topK, outcomesOdds.ret),
   ret |-> outcomesOdds.ret]

buildTopOutcomeOddsMapOutcomes(marketOutcomes, marketId, data, activeBookmakers, topK) ==
  buildTopOutcomeOddsMapRanked(marketOutcomes,
                               New(marketOutcomes.heap, "outcomesOdds", EmptyMap),
                               marketId, data, activeBookmakers, topK)

buildTopOutcomeOddsMapOn(h, marketId, data, activeBookmakers, topK) ==
  buildTopOutcomeOddsMapOutcomes(
    getMarketOutcomesOn(h, marketId, data, activeBookmakers),
    marketId, data, activeBookmakers, topK)

\* the lists an array of lists names
ListsOf(h, arrays) == [i \in 1..Len(h[arrays].v) |-> h[h[arrays].v[i]].v]

generateCombinationsOn(h, arrays, maxCombinations) ==
  New(h, "combinations", generateCombinations(ListsOf(h, arrays), maxCombinations))

evaluateCombinationsOn(h, marketId, outcomeIds, combos, includeBetDistribution) ==
  LET opportunities == New(h, "opportunities", << >>)
  IN  [heap |-> Write(opportunities.heap, opportunities.ret,
                      evaluateCombinations(marketId, h[outcomeIds].v, h[combos].v,
                                           includeBetDistribution)),
       ret |-> opportunities.ret]

\* Object.keys(outcomeOdds)
keysOn(h, outcomeOdds) == New(h, "outcomeIds", SortedSeq(DOMAIN h[outcomeOdds].v))

\* outcomeIds.map(oId => outcomeOdds[oId]): an array of the lists themselves
oddsArraysOn(h, outcomeIds, outcomeOdds) ==
  New(h, "oddsArrays",
      [i \in 1..Len(h[outcomeIds].v) |-> h[outcomeOdds].v[h[outcomeIds].v[i]]])

\* analyzeMarketTopK from the call of evaluateCombinations on:
\* opportunities.sort(...), in place, and sorted.slice(0, maxResults)
analyzeMarketTopKEvaluated(opportunities, maxResults) ==
  LET sorted == Write(opportunities.heap, opportunities.ret,
                      SortByArbDesc(opportunities.heap[opportunities.ret].v))
  IN  New(sorted, "opportunities", Slice(sorted[opportunities.ret].v, maxResults))

\* analyzeMarketTopK from the call of generateCombinations on
analyzeMarketTopKCombined(allCombinations, marketId, outcomeIds, options) ==
  analyzeMarketTopKEvaluated(
    evaluateCombinationsOn(allCombinations.heap, marketId, outcomeIds,
                           allCombinations.ret, options.includeBetDistribution),
    ClampMaxResults(options.maxResults))

\* analyzeMarketTopK from outcomeIds.map on
analyzeMarketTopKListed(oddsArrays, marketId, outcomeIds, options) ==
  analyzeMarketTopKCombined(
    generateCombinationsOn(oddsArrays.heap, oddsArrays.ret, DefaultMaxCombinations),
    marketId, outcomeIds, options)

\* analyzeMarketTopK from Object.keys on
analyzeMarketTopKKeyed(outcomeIds, marketId, outcomeOdds, options) ==
  analyzeMarketTopKListed(oddsArraysOn(outcomeIds.heap, outcomeIds.ret, outcomeOdds),
                          marketId, outcomeIds.ret, options)

\* analyzeMarketTopK from the call of buildTopOutcomeOddsMap on
analyzeMarketTopKBuilt(outcomeOdds, marketId, options) ==
  analyzeMarketTopKKeyed(keysOn(outcomeOdds.heap, outcomeOdds.ret), marketId,
                         outcomeOdds.ret, options)

analyzeMarketTopKOn(h, marketId, data, activeBookmakers, options) ==
  analyzeMarketTopKBuilt(
    buildTopOutcomeOddsMapOn(h, marketId, data, activeBookmakers,
                             ClampTopk(options.topk)),
    marketId, options)

(***************************************************************************)
(* A session of calls of the exported operations on one loaded snapshot:   *)
(* oddsData is the snapshot as it was loaded, heap[1] the object the calls *)
(* are handed.  Each call takes its arguments among the objects that are   *)
(* there; call.log lists the calls made, with their arguments and the      *)
(* address they returned.  Two bookmakers carry markets 101 and 102, each  *)
(* at 3.0 and 30000.0 or at 30.0 and 3.0; the first is active.             *)
(***************************************************************************)
FrameForms == {<<300, 3000000>>, <<3000, 300>>}

FrameSnapshot(f, act) ==
  [b \in BookmakerNames |->
     [bookmakerIsActive |-> act[b],
      markets |->
        [m \in RunMarketIds |->
           [outcomes |-> [o \in {1, 2} |-> Quote(f[<<b, m>>][o])]]]]]

\* the options the session analyses with
FrameOptions ==
  {[topk |-> 2, maxResults |-> 5, includeBetDistribution |-> TRUE],
   [topk |-> 3, maxResults |-> 2, includeBetDistribution |-> FALSE]}

InitFrame ==
  \E f \in [BookmakerNames \X RunMarketIds -> FrameForms],
     act \in [BookmakerNames -> BOOLEAN] :
    /\ act["b1"]
    /\ oddsData = FrameSnapshot(f, act)
    /\ heap = <<[type |-> "OddsData", v |-> FrameSnapshot(f, act)]>>
    /\ call = [fn |-> "idle", log |-> << >>]
    /\ result = << >>

\* the objects of a type that are there
Addresses(type) == {a \in 1..Len(heap) : heap[a].type = type}

\* a call with arguments args has returned r, whose value is value
Called(fn, args, r, value) ==
  /\ call' = [fn |-> fn,
              log |-> Append(call.log, [fn |-> fn, ret |-> r.ret] @@ args)] @@ args
  /\ heap' = r.heap
  /\ result' = value
  /\ UNCHANGED oddsData

CallGetActiveBookmakers ==
  /\ Len(call.log) < MaxCalls
  /\ \E data \in Addresses("OddsData") :
       LET r == getActiveBookmakersOn(heap, data)
       IN  Called("getActiveBookmakers", [oddsData |-> data], r, r.heap[r.ret].v)

CallGetAllMarkets ==
  /\ Len(call.log) < MaxCalls
  /\ \E data \in Addresses("OddsData"), list \in Addresses("activeBookmakers") :
       LET r == getAllMarketsOn(heap, data, list)
       IN  Called("getAllMarkets", [oddsData |-> data, activeBookmakers |-> list],
                  r, r.heap[r.ret].v)

CallGetMarketOutcomes ==
  /\ Len(call.log) < MaxCalls
  /\ \E m \in RunMarketIds, data \in Addresses("OddsData"),
        list \in Addresses("activeBookmakers") :
       LET r == getMarketOutcomesOn(heap, m, data, list)
       IN  Called("getMarketOutcomes",
                  [marketId |-> m, oddsData |-> data, activeBookmakers |-> list],
                  r, r.heap[r.ret].v)

CallAnalyzeMarket ==
  /\ Len(call.log) < MaxCalls
  /\ \E m \in RunMarketIds, data \in Addresses("OddsData"),
        list \in Addresses("activeBookmakers") :
       LET r == analyzeMarketOn(heap, m, data, list)
       IN  Called("analyzeMarket",
                  [marketId |-> m, oddsData |-> data, activeBookmakers |-> list],
                  r, IF r.ret = Null THEN << >> ELSE <<r.heap[r.ret].v>>)

CallBuildTopOutcomeOddsMap ==
  /\ Len(call.log) < MaxCalls
  /\ \E m \in RunMarketIds, data \in Addresses("OddsData"),
        list \in Addresses("activeBookmakers"), k \in {1, 2} :
       LET r == buildTopOutcomeOddsMapOn(heap, m, data, list, k)
       IN  Called("buildTopOutcomeOddsMap",
                  [marketId |-> m, oddsData |-> data, activeBookmakers |-> list,
                   topK |-> k],
                  r, [o \in DOMAIN r.heap[r.ret].v |-> r.heap[r.heap[r.ret].v[o]].v])

\* the caller lists the candidate lists of a map it holds, as
\* analyzeMarketTopK does, and passes the array
CallGenerateCombinations ==
  /\ Len(call.log) < MaxCalls
  /\ \E outcomeOdds \in Addresses("outcomesOdds"),
        cap \in {1, DefaultMaxCombinations} :
       LET outcomeIds == keysOn(heap, outcomeOdds)
           oddsArrays == oddsArraysOn(outcomeIds.heap, outcomeIds.ret, outcomeOdds)
           r == generateCombinationsOn(oddsArrays.heap, oddsArrays.ret, cap)
       IN  Called("generateCombinations",
                  [arrays |-> oddsArrays.ret, maxCombinations |-> cap],
                  r, r.heap[r.ret].v)

CallEvaluateCombinations ==
  /\ Len(call.log) < MaxCalls
  /\ \E m \in RunMarketIds, outcomeIds \in Addresses("outcomeIds"),
        combos \in Addresses("combinations"), include \in BOOLEAN :
       /\ \A i \in 1..Len(heap[combos].v) :
            Len(heap[combos].v[i]) = Len(heap[outcomeIds].v)
       /\ LET r == evaluateCombinationsOn(heap, m, outcomeIds, combos, include)
          IN  Called("evaluateCombinations",
                     [marketId |-> m, outcomeIds |-> outcomeIds, combos |-> combos,
                      includeBetDistribution |-> include],
                     r, r.heap[r.ret].v)

CallAnalyzeMarketTopK ==
  /\ Len(call.log) < MaxCalls
  /\ \E m \in RunMarketIds, data \in Addresses("OddsData"),
        list \in Addresses("activeBookmakers"), options \in FrameOptions :
       LET r == analyzeMarketTopKOn(heap, m, data, list, options)
       IN  Called("analyzeMarketTopK",
                  [marketId |-> m, oddsData |-> data, activeBookmakers |-> list,
                   options |-> options],
                  r, r.heap[r.ret].v)

NextFrame ==
  \/ CallGetActiveBookmakers
  \/ CallGetAllMarkets
  \/ CallGetMarketOutcomes
  \/ CallAnalyzeMarket
  \/ CallBuildTopOutcomeOddsMap
  \/ CallGenerateCombinations
  \/ CallEvaluateCombinations
  \/ CallAnalyzeMarketTopK

SpecFrame == InitFrame /\ [][NextFrame]_vars

(***************************************************************************)
(* Vocabulary of the properties.                                           *)
(***************************************************************************)
ActiveNames == {b \in DOMAIN oddsData : oddsData[b].bookmakerIsActive}

ActiveList == getActiveBookmakers(oddsData)

\* the outcome set of market m: the union over the active bookmakers
OutcomeSet(m) == getMarketOutcomes(m, oddsData, ActiveList)

Carries(b, m, o) ==
  /\ m \in DOMAIN oddsData[b].markets
  /\ o \in DOMAIN oddsData[b].markets[m].outcomes

QuoteOf(b, m, o) == oddsData[b].markets[m].outcomes[o]

\* bookmaker b holds a qualifying quote for outcome o of market m
Qualifies(b, m, o) ==
  /\ oddsData[b].bookmakerIsActive
  /\ Carries(b, m, o)
  /\ QuoteOf(b, m, o).active
  /\ QuoteOf(b, m, o).price > 100

IsAnalysis == call.fn \in {"analyzeMarket", "analyzeMarketTopK"}

\* the opportunities the analysis in progress has returned
Returned == IF IsAnalysis THEN {result[i] : i \in 1..Len(result)} ELSE {}

\* the returned opportunities that carry a stake distribution
WithStakes ==
  IF \/ call.fn = "analyzeMarket"
     \/ call.fn = "analyzeMarketTopK" /\ call.options.includeBetDistribution
  THEN Returned ELSE {}

\* the exact sum of 1 / odds over the first n reported outcomes
RECURSIVE ExactSum(_, _)
ExactSum(outcomes, n) ==
  IF n = 0 THEN <<0, 1>>
  ELSE RAdd(ExactSum(outcomes, n - 1), ExactInv(outcomes[n].odds))

ExactTotal(opp) == ExactSum(opp.outcomes, Len(opp.outcomes))

RECURSIVE SumStakes(_, _)
SumStakes(bets, n) ==
  IF n = 0 THEN 0 ELSE SumStakes(bets, n - 1) + bets[n].betPercentage.v

AllStakesFinite(opp) ==
  \A i \in 1..Len(opp.betDistribution) : opp.betDistribution[i].betPercentage.kind = "num"

Abs(x) == IF x < 0 THEN -x ELSE x

(***************************************************************************)
(* C1.  Every returned opportunity, in either mode, has an exact sum of    *)
(* 1 / odds over its reported outcomes that is strictly below 1.           *)
(***************************************************************************)
C1_ExactSumBelowOne ==
  \A opp \in Returned : RLess(ExactTotal(opp), <<1, 1>>)

(***************************************************************************)
(* C2.  Every returned opportunity reports a totalImpliedProbability       *)
(* strictly below 1 and a finite arbitragePercentage strictly above 0.     *)
(***************************************************************************)
C2_ReportedBelowOneAndPositive ==
  \A opp \in Returned :
    /\ opp.totalImpliedProbability < 10000
    /\ opp.arbitragePercentage.kind = "num"
    /\ opp.arbitragePercentage.v > 0

(***************************************************************************)
(* C3.  The reported arbitragePercentage is (1/T - 1) x 100 rounded to 2   *)
(* decimals, T being the full-precision sum of 1 / odds over the reported  *)
(* outcomes: it is a multiple of 0.01 nearest to that value.               *)
(***************************************************************************)
\* (1 - T) / T x 100 as a rational, Infinity for T = 0
ExactArbitrage(opp) ==
  LET T == ExactTotal(opp)
  IN  IF T[1] = 0 THEN Infinity
      ELSE Num(RTimes(Norm(T[2] - T[1], T[1]), 100))

IsNearestHundredth(reported, exact) ==
  IF exact.kind = "num"
  THEN /\ reported.kind = "num"
       /\ LET u == RTimes(exact.v, 100)
          IN  2 * Abs(reported.v * u[2] - u[1]) <= u[2]
  ELSE reported.kind = exact.kind

C3_ArbitrageFromReportedOdds ==
  \A opp \in Returned :
    RLess(ExactTotal(opp), <<1, 1>>) =>
      IsNearestHundredth(opp.arbitragePercentage, ExactArbitrage(opp))

(***************************************************************************)
(* C4.  For every opportunity with a stake distribution the betPercentage  *)
(* values are numbers whose sum differs from 100 by at most 0.05.  Stated  *)
(* for the opportunities of two or more outcomes, the ones a market of a   *)
(* proper outcome set gives.                                               *)
(***************************************************************************)
C4_StakesSumTo100 ==
  \A opp \in WithStakes :
    Len(opp.outcomes) >= 2 =>
      /\ AllStakesFinite(opp)
      /\ Abs(SumStakes(opp.betDistribution, Len(opp.betDistribution)) - 10000) <= 5

(***************************************************************************)
(* C5.  For every opportunity with a stake distribution the payouts        *)
(* odds_i x betPercentage_i / 100 of any two outcomes agree up to the      *)
(* rounding of the two stakes to 2 decimals (half a hundredth of a percent *)
(* of stake on each side, i.e. (odds_i + odds_j) x 0.005 / 100).           *)
(***************************************************************************)
\* odds_i x betPercentage_i, in units of 0.01 (odds as a rational)
PayoutOf(opp, i) ==
  RTimes(Norm(opp.outcomes[i].odds, 100), opp.betDistribution[i].betPercentage.v)

PayoutsAgree(opp, i, j) ==
  LET pi == PayoutOf(opp, i)
      pj == PayoutOf(opp, j)
      oi == Norm(opp.outcomes[i].odds, 100)
      oj == Norm(opp.outcomes[j].odds, 100)
      tol == RAdd(oi, oj)
  IN  \* 2 |pi - pj| <= oi + oj
      2 * Abs(pi[1] * pj[2] - pj[1] * pi[2]) * tol[2] <= tol[1] * pi[2] * pj[2]

C5_EqualPayouts ==
  \A opp \in WithStakes :
    /\ AllStakesFinite(opp)
    /\ \A i, j \in 1..Len(opp.betDistribution) : PayoutsAgree(opp, i, j)

(***************************************************************************)
(* C6.  A market whose outcome set has fewer than 2 outcomes yields no     *)
(* opportunity, in single-best mode and in top-K mode.                     *)
(***************************************************************************)
C6_FewerThanTwoOutcomes ==
  IsAnalysis /\ Cardinality(OutcomeSet(call.marketId)) < 2 => result = << >>

(***************************************************************************)
(* C7.  getAllMarkets and getMarketOutcomes return no market id and no     *)
(* outcome id that only inactive bookmakers carry, whatever bookmaker list *)
(* they are given.                                                         *)
(***************************************************************************)
C7_NothingFromInactive ==
  /\ call.fn = "getAllMarkets" =>
       \A m \in result : \E b \in ActiveNames : m \in DOMAIN oddsData[b].markets
  /\ call.fn = "getMarketOutcomes" =>
       \A o \in result : \E b \in ActiveNames : Carries(b, call.marketId, o)

(***************************************************************************)
(* C8.  The selection of findBestOdds and every entry of the candidate     *)
(* lists of buildTopOutcomeOddsMap is a qualifying quote: active bookmaker,*)
(* active quote, price strictly above 1.0.                                 *)
(***************************************************************************)
IsQualifyingEntry(m, o, e) ==
  /\ e.bookmaker \in BookmakerNames
  /\ Qualifies(e.bookmaker, m, o)
  /\ QuoteOf(e.bookmaker, m, o).price = e.odds

C8_OnlyQualifyingQuotes ==
  /\ call.fn = "findBestOdds" =>
       \A o \in DOMAIN result : IsQualifyingEntry(call.marketId, o, result[o])
  /\ call.fn = "buildTopOutcomeOddsMap" =>
       \A o \in DOMAIN result :
         \A i \in 1..Len(result[o]) : IsQualifyingEntry(call.marketId, o, result[o][i])

(***************************************************************************)
(* C9.  If some outcome of the market's outcome set has no qualifying      *)
(* quote from any active bookmaker, the market yields no opportunity:      *)
(* analyzeMarket returns null and analyzeMarketTopK the empty list.        *)
(***************************************************************************)
Uncovered(m) ==
  \E o \in OutcomeSet(m) : ~ \E b \in ActiveNames : Qualifies(b, m, o)

C9_MissingCoverageYieldsNothing ==
  IsAnalysis /\ Uncovered(call.marketId) => result = << >>

\* top-K mode was run on a market of two or more outcomes of which one has
\* no qualifying quote and another has one
C9_Witness ==
  /\ call.fn = "analyzeMarketTopK"
  /\ Cardinality(OutcomeSet(call.marketId)) >= 2
  /\ Uncovered(call.marketId)
  /\ \E o \in OutcomeSet(call.marketId) :
       \E b \in ActiveNames : Qualifies(b, call.marketId, o)
  /\ result = << >>

(***************************************************************************)
(* C10.  As claimed: generateCombinations returns product-of-lengths many  *)
(* combinations when the product is below the cap and none when the        *)
(* product is at or above the cap.                                         *)
(***************************************************************************)
GenProduct == TotalCombinations(call.arrays, 1)

C10_AbortsAtOrAboveCap ==
  call.fn = "generateCombinations" =>
    /\ GenProduct < call.maxCombinations => Len(result) = GenProduct
    /\ GenProduct >= call.maxCombinations => Len(result) = 0

(***************************************************************************)
(* C10, amended.  generateCombinations returns product-of-lengths many     *)
(* combinations when the product is at most the cap and none when the      *)
(* product is strictly above the cap.                                      *)
(***************************************************************************)
C10_AbortsOnlyAboveCap ==
  call.fn = "generateCombinations" =>
    /\ GenProduct <= call.maxCombinations => Len(result) = GenProduct
    /\ GenProduct > call.maxCombinations => Len(result) = 0

\* the generator was applied to lists whose product equals the cap and
\* returned every combination
C10_Witness ==
  /\ call.fn = "generateCombinations"
  /\ GenProduct = call.maxCombinations
  /\ GenProduct > 1
  /\ Len(result) = GenProduct

(***************************************************************************)
(* C11.  In top-K mode the combination cap is a parameter of the analysis: *)
(* when the product of the market's candidate-list lengths exceeds the     *)
(* configured cap, the market yields no opportunity, and never more        *)
(* opportunities than the cap allows combinations.                         *)
(***************************************************************************)
\* the candidate lists analyzeMarketTopK builds for the call in progress
CandidateLists ==
  LET outcomeOdds == buildTopOutcomeOddsMap(call.marketId, oddsData, ActiveList,
                                            ClampTopk(call.options.topk))
      outcomeIds == SortedSeq(DOMAIN outcomeOdds)
  IN  [i \in 1..Len(outcomeIds) |-> outcomeOdds[outcomeIds[i]]]

C11_ConfiguredCapBoundsWork ==
  call.fn = "analyzeMarketTopK" =>
    /\ TotalCombinations(CandidateLists, 1) > call.options.combinationCap =>
         result = << >>
    /\ Len(result) <= call.options.combinationCap

(***************************************************************************)
(* C12.  analyzeMarketTopK clamps its parameters: a topk above 3 gives the *)
(* result of topk = 3, a topk below 1 the result of topk = 1, a maxResults *)
(* above 5 the result of maxResults = 5 and a maxResults below 1 (0        *)
(* included) the result of maxResults = 1.                                 *)
(***************************************************************************)
ClaimedClamp(x, lo, hi) == IF x > hi THEN hi ELSE IF x < lo THEN lo ELSE x

ClaimedOptions(options) ==
  [options EXCEPT !.topk = ClaimedClamp(@, 1, 3),
                  !.maxResults = ClaimedClamp(@, 1, 5)]

C12_ParametersClamped ==
  call.fn = "analyzeMarketTopK" =>
    result = analyzeMarketTopK(call.marketId, oddsData, ActiveList,
                               ClaimedOptions(call.options))

(***************************************************************************)
(* Vocabulary of the properties of a run of calculateArbitrage.            *)
(***************************************************************************)
Done == call.fn = "calculateArbitrage" /\ call.pc = "done"

Succeeded == Done /\ "analysis" \in DOMAIN result

Failed == Done /\ "error" \in DOMAIN result

LoadCauses ==
  ApiFailures \cup {"Odds data file not found", "Failed to load odds data"}

\* the run failed while loading the snapshot
LoadFailed == Failed /\ result.cause \in LoadCauses

\* the market ids carried by active bookmakers
ActiveMarkets == UNION {DOMAIN oddsData[b].markets : b \in ActiveNames}

\* the opportunities of the result that name market m
OppsOf(m) == SelectSeq(result.analysis.opportunities, LAMBDA opp : opp.market = m)

(***************************************************************************)
(* C13.  When the loaded snapshot has no active bookmaker or no market at  *)
(* all (empty bookmaker mapping, every bookmaker inactive, or active       *)
(* bookmakers with empty market mappings), calculateArbitrage returns a    *)
(* result, not an error, with analyzedMarkets = 0, totalOpportunities = 0  *)
(* and no opportunity.                                                     *)
(***************************************************************************)
EmptyInput(data) ==
  /\ "bookmakerOdds" \in DOMAIN data
  /\ \A b \in DOMAIN data.bookmakerOdds :
       data.bookmakerOdds[b].bookmakerIsActive =>
         /\ "markets" \in DOMAIN data.bookmakerOdds[b]
         /\ DOMAIN data.bookmakerOdds[b].markets = {}

C13_EmptyInputCompletes ==
  Done /\ ~ LoadFailed /\ EmptyInput(call.data) =>
    /\ Succeeded
    /\ result.analysis.analyzedMarkets = 0
    /\ result.analysis.totalOpportunities = 0
    /\ result.analysis.opportunities = << >>

(***************************************************************************)
(* C14.  A run uses one mode for every market: top-K mode when topk is     *)
(* above 1, single-best mode otherwise.  In single-best mode the result    *)
(* holds at most one opportunity per market id, in top-K mode at most 5.   *)
(***************************************************************************)
RECURSIVE SingleBestFrom(_, _)
SingleBestFrom(markets, i) ==
  IF i > Len(markets) THEN << >>
  ELSE analyzeMarket(markets[i], oddsData, ActiveList) \o SingleBestFrom(markets, i + 1)

RECURSIVE TopKFrom(_, _)
TopKFrom(markets, i) ==
  IF i > Len(markets) THEN << >>
  ELSE analyzeMarketTopK(markets[i], oddsData, ActiveList, RunOptions(call.topk))
         \o TopKFrom(markets, i + 1)

C14_OneModePerRun ==
  Succeeded =>
    IF call.topk > 1
    THEN /\ result.analysis.opportunities = TopKFrom(call.allMarkets, 1)
         /\ \A m \in RunMarketIds : Len(OppsOf(m)) <= 5
    ELSE /\ result.analysis.opportunities = SingleBestFrom(call.allMarkets, 1)
         /\ \A m \in RunMarketIds : Len(OppsOf(m)) <= 1

\* a top-K run whose result holds 5 opportunities of one market (of the 8
\* combinations that are arbitrages)
C14_Witness ==
  /\ Succeeded
  /\ call.topk > 1
  /\ \E m \in RunMarketIds :
       /\ Len(OppsOf(m)) = 5
       /\ Len(analyzeMarketTopK(m, oddsData, ActiveList,
                                [RunOptions(call.topk) EXCEPT !.maxResults = 5])) = 5
       /\ TotalCombinations(
            [i \in 1..3 |-> buildTopOutcomeOddsMap(m, oddsData, ActiveList, 3)[i]], 1) > 5

(***************************************************************************)
(* C15.  In every result: totalOpportunities is the length of the          *)
(* opportunities, totalActiveBookmakers the number of bookmakers with      *)
(* bookmakerIsActive, analyzedMarkets the number of distinct market ids    *)
(* carried by active bookmakers, and every opportunity's market is one of  *)
(* those ids.                                                              *)
(***************************************************************************)
C15_CountsMatch ==
  Succeeded =>
    /\ result.analysis.totalOpportunities = Len(result.analysis.opportunities)
    /\ result.analysis.totalActiveBookmakers = Cardinality(ActiveNames)
    /\ result.analysis.analyzedMarkets = Cardinality(ActiveMarkets)
    /\ \A i \in 1..Len(result.analysis.opportunities) :
         result.analysis.opportunities[i].market \in ActiveMarkets

\* a result with an opportunity, from a snapshot in which an inactive
\* bookmaker carries a market no active bookmaker carries
C15_Witness ==
  /\ Succeeded
  /\ result.analysis.totalOpportunities >= 1
  /\ result.analysis.analyzedMarkets = 1
  /\ \E b \in DOMAIN oddsData :
       /\ ~ oddsData[b].bookmakerIsActive
       /\ "markets" \in DOMAIN oddsData[b]
       /\ \E m \in DOMAIN oddsData[b].markets : m \notin ActiveMarkets

(***************************************************************************)
(* C16.  Two runs over the same snapshot with the same parameters return   *)
(* identical results.                                                      *)
(***************************************************************************)
C16_RunsAgree ==
  Done /\ call.run = 2 /\ call.data = call.previous[1].data =>
    result = call.previous[1].result

(***************************************************************************)
(* C17.  Scenario 1: for a market of two outcomes that the only active     *)
(* bookmaker carrying it quotes at 2.2 each, single-best analysis returns  *)
(* one opportunity with impliedProbability 0.4545 for each outcome,        *)
(* totalImpliedProbability 0.9091, arbitragePercentage 10.0 within 0.005   *)
(* and betPercentage 50 for each outcome.                                  *)
(***************************************************************************)
Scenario22(m) ==
  /\ Cardinality({b \in ActiveNames : m \in DOMAIN oddsData[b].markets}) = 1
  /\ \A b \in ActiveNames :
       m \in DOMAIN oddsData[b].markets => oddsData[b].markets[m] = Market22

C17_Scenario22 ==
  Succeeded /\ ~ (call.topk > 1) =>
    \A m \in RunMarketIds :
      Scenario22(m) =>
        /\ Len(OppsOf(m)) = 1
        /\ LET opp == OppsOf(m)[1]
           IN  /\ \A i \in 1..Len(opp.outcomes) :
                    opp.outcomes[i].impliedProbability = 4545
               /\ opp.totalImpliedProbability = 9091
               /\ opp.arbitragePercentage = Num(1000)
               /\ \A i \in 1..Len(opp.betDistribution) :
                    opp.betDistribution[i].betPercentage = Num(5000)

(***************************************************************************)
(* C18.  loadOddsData with a fixture id: when the API request fails, for   *)
(* whatever reason, and the local file can be read, the file's content is  *)
(* what calculateArbitrage gets, and no failure of the load reaches it.    *)
(***************************************************************************)
ApiFailedFileReadable ==
  /\ call.fn = "calculateArbitrage"
  /\ call.fixtureId # ""
  /\ ~ call.api.ok
  /\ call.file.ok

C18_FallbackToFile ==
  ApiFailedFileReadable /\ call.pc \notin {"load", "awaiting"} =>
    /\ call.data = call.file.data
    /\ ~ LoadFailed

\* a run with a fixture id whose API request failed and which returned the
\* analysis of the file's snapshot
C18_Witness ==
  /\ ApiFailedFileReadable
  /\ Succeeded
  /\ result.fixture.fixtureId = "file"
  /\ result.analysis.totalOpportunities >= 1

(***************************************************************************)
(* C19.  The only failure calculateArbitrage raises for a loaded snapshot  *)
(* is for malformed input (bookmakerOdds, a bookmaker's markets or a       *)
(* market's outcomes missing); it is raised as a labelled validation       *)
(* error, not a bare runtime error, and before the analysis of the first   *)
(* market has begun.                                                       *)
(***************************************************************************)
Malformed(data) ==
  \/ "bookmakerOdds" \notin DOMAIN data
  \/ \E b \in DOMAIN data.bookmakerOdds :
       \/ "markets" \notin DOMAIN data.bookmakerOdds[b]
       \/ \E m \in DOMAIN data.bookmakerOdds[b].markets :
            "outcomes" \notin DOMAIN data.bookmakerOdds[b].markets[m]

C19_OnlyValidationFailures ==
  Failed /\ ~ LoadFailed =>
    /\ Malformed(call.data)
    /\ result.cause # "TypeError"
    /\ call.i = 0

(***************************************************************************)
(* C20.  Single-best mode is complete: a market with at least 2 outcomes,  *)
(* each with an active quote from an active bookmaker, whose exact sum of  *)
(* 1 / best price is strictly below 1 has an opportunity in the result.    *)
(***************************************************************************)
ActiveQuotes(m, o) ==
  {QuoteOf(b, m, o).price :
     b \in {x \in ActiveNames : Carries(x, m, o) /\ QuoteOf(x, m, o).active}}

BestPrice(m, o) == CHOOSE p \in ActiveQuotes(m, o) : \A q \in ActiveQuotes(m, o) : q <= p

RECURSIVE ExactBestSum(_, _)
ExactBestSum(m, outcomes) ==
  IF outcomes = {} THEN <<0, 1>>
  ELSE LET o == CHOOSE x \in outcomes : TRUE
       IN  RAdd(ExactBestSum(m, outcomes \ {o}), ExactInv(BestPrice(m, o)))

ExactArbitrageExists(m) ==
  /\ Cardinality(OutcomeSet(m)) >= 2
  /\ \A o \in OutcomeSet(m) : ActiveQuotes(m, o) # {}
  /\ RLess(ExactBestSum(m, OutcomeSet(m)), <<1, 1>>)

C20_SingleBestComplete ==
  Succeeded /\ ~ (call.topk > 1) =>
    \A m \in ActiveMarkets : ExactArbitrageExists(m) => Len(OppsOf(m)) >= 1

(***************************************************************************)
(* C21.  In every opportunity analyzeMarket returns, each outcome's odds   *)
(* are the greatest active price for that outcome over the active          *)
(* bookmakers, and its bookmaker is the first one, in activeBookmakers     *)
(* order, that quotes this price.                                          *)
(***************************************************************************)
\* the positions in the active list of the bookmakers quoting price p
QuotingAt(m, o, p) ==
  {i \in 1..Len(ActiveList) :
     /\ Carries(ActiveList[i], m, o)
     /\ QuoteOf(ActiveList[i], m, o).active
     /\ QuoteOf(ActiveList[i], m, o).price = p}

FirstQuoting(m, o, p) ==
  ActiveList[CHOOSE i \in QuotingAt(m, o, p) : \A j \in QuotingAt(m, o, p) : i <= j]

C21_BestOddsFirstBookmaker ==
  call.fn = "analyzeMarket" =>
    \A k \in 1..Len(result) :
      \A i \in 1..Len(result[k].outcomes) :
        LET e == result[k].outcomes[i]
        IN  /\ ActiveQuotes(call.marketId, e.outcomeId) # {}
            /\ e.odds = BestPrice(call.marketId, e.outcomeId)
            /\ e.bookmaker = FirstQuoting(call.marketId, e.outcomeId, e.odds)

\* analyzeMarket returned an opportunity for a market in which two active
\* bookmakers quote the same greatest price for an outcome
C21_Witness ==
  /\ call.fn = "analyzeMarket"
  /\ Len(result) = 1
  /\ \E i \in 1..Len(result[1].outcomes) :
       LET e == result[1].outcomes[i]
       IN  /\ Cardinality(QuotingAt(call.marketId, e.outcomeId, e.odds)) >= 2
           /\ e.bookmaker = "b1"

(***************************************************************************)
(* C22.  Every candidate list of buildTopOutcomeOddsMap(market, data,      *)
(* activeBookmakers, K) is ordered by odds non-increasing, has length      *)
(* min(K, number of qualifying quotes), holds at most one entry per        *)
(* bookmaker, leaves out no qualifying quote with a price above a kept     *)
(* one, and is never longer than 3.                                        *)
(***************************************************************************)
QualifyingNames(m, o) == {b \in ActiveNames : Qualifies(b, m, o)}

IsRankedList(m, o, list, K) ==
  /\ \A i \in 1..(Len(list) - 1) : list[i].odds >= list[i + 1].odds
  /\ Len(list) = Min(K, Cardinality(QualifyingNames(m, o)))
  /\ \A i, j \in 1..Len(list) : list[i].bookmaker = list[j].bookmaker => i = j
  /\ \A b \in QualifyingNames(m, o) :
       (\A i \in 1..Len(list) : list[i].bookmaker # b) =>
         \A i \in 1..Len(list) : QuoteOf(b, m, o).price <= list[i].odds
  /\ Len(list) <= 3

C22_RankedCandidateLists ==
  call.fn = "buildTopOutcomeOddsMap" =>
    \A o \in DOMAIN result : IsRankedList(call.marketId, o, result[o], call.topK)

(***************************************************************************)
(* C23.  When the product of the list lengths does not exceed the cap,     *)
(* generateCombinations returns every element of the Cartesian product     *)
(* exactly once, entry i of a combination taken from list i, in            *)
(* lexicographic order of the index tuples (last list fastest), the first  *)
(* combination being the first element of every list.                      *)
(***************************************************************************)
\* the position of element x in list i
IndexIn(arrays, i, x) == CHOOSE j \in 1..Len(arrays[i]) : arrays[i][j] = x

\* combination a comes before combination b in lexicographic index order
LexBefore(arrays, a, b) ==
  \E i \in 1..Len(arrays) :
    /\ IndexIn(arrays, i, a[i]) < IndexIn(arrays, i, b[i])
    /\ \A h \in 1..(i - 1) : a[h] = b[h]

C23_CartesianProductInOrder ==
  call.fn = "generateCombinations" /\ GenProduct <= call.maxCombinations =>
    /\ Len(result) = GenProduct
    /\ \A k \in 1..Len(result) :
         /\ Len(result[k]) = Len(call.arrays)
         /\ \A i \in 1..Len(call.arrays) :
              \E j \in 1..Len(call.arrays[i]) : call.arrays[i][j] = result[k][i]
    /\ \A k \in 1..(Len(result) - 1) : LexBefore(call.arrays, result[k], result[k + 1])
    /\ Len(result) >= 1 =>
         result[1] = [i \in 1..Len(call.arrays) |-> call.arrays[i][1]]

\* the generator returned the whole product of three lists of which two
\* have more than one element
C23_Witness ==
  /\ call.fn = "generateCombinations"
  /\ Len(call.arrays) = 3
  /\ Cardinality({i \in 1..3 : Len(call.arrays[i]) >= 2}) >= 2
  /\ Len(result) = GenProduct
  /\ GenProduct >= 4

(***************************************************************************)
(* C24.  The list analyzeMarketTopK returns is ordered by                  *)
(* arbitragePercentage non-increasing, has length min(clamped maxResults,  *)
(* number of combinations whose implied sum is below 1), and no arbitrage  *)
(* combination left out has an arbitragePercentage strictly greater than   *)
(* one that is returned.  The implied sum of a combination is the double   *)
(* the code adds up; the combinations are counted as the choices of one    *)
(* position in each candidate list.                                        *)
(***************************************************************************)
\* a choice of one position in each candidate list
Choices(lists) ==
  {c \in [1..Len(lists) -> 1..3] : \A i \in 1..Len(lists) : c[i] <= Len(lists[i])}

\* the combination a choice picks
ChoiceOf(lists, c) == [i \in 1..Len(lists) |-> lists[i][c[i]]]

\* the exact sum of 1/odds over the first n entries of a combination
RECURSIVE ChoiceSum(_, _)
ChoiceSum(combo, n) ==
  IF n = 0 THEN <<0, 1>>
  ELSE RAdd(ChoiceSum(combo, n - 1), ExactInv(combo[n].odds))

\* the combinations of the candidate lists whose implied sum, the double
\* the code adds up from 0 in the order of the outcomes, is below 1
ArbChoices(lists) ==
  {c \in Choices(lists) : NumbersOfCombo(ChoiceOf(lists, c)).isArbitrage}

\* every opportunity the call in progress evaluates, in evaluation order
Evaluated ==
  evaluateCombinations(call.marketId,
                       SortedSeq(OutcomeSet(call.marketId)),
                       generateCombinations(CandidateLists, DefaultMaxCombinations),
                       call.options.includeBetDistribution)

CountIn(list, x) == Cardinality({i \in 1..Len(list) : list[i] = x})

IsBestPrefix(returned, all) ==
  /\ \A i \in 1..(Len(returned) - 1) :
       ~ FGreater(returned[i + 1].arbitragePercentage, returned[i].arbitragePercentage)
  /\ \A i \in 1..Len(returned) : CountIn(returned, returned[i]) <= CountIn(all, returned[i])
  /\ \A k \in 1..Len(all) :
       CountIn(returned, all[k]) < CountIn(all, all[k]) =>
         \A i \in 1..Len(returned) :
           ~ FGreater(all[k].arbitragePercentage, returned[i].arbitragePercentage)

C24_SortedAndTruncated ==
  call.fn = "analyzeMarketTopK" =>
    /\ Len(result) = Min(ClampMaxResults(call.options.maxResults),
                         Cardinality(ArbChoices(CandidateLists)))
    /\ IsBestPrefix(result, Evaluated)

\* a call whose candidate lists give combinations on both sides of the
\* threshold, among those below it one whose exact sum is 1, more of them
\* than it may return and not in the order of their percentages, and that
\* returned the best ones
C24_Witness ==
  /\ call.fn = "analyzeMarketTopK"
  /\ Cardinality(Choices(CandidateLists)) > Cardinality(ArbChoices(CandidateLists))
  /\ Cardinality(ArbChoices(CandidateLists)) > Len(result)
  /\ Len(result) >= 2
  /\ FGreater(result[1].arbitragePercentage, result[Len(result)].arbitragePercentage)
  /\ \E c \in ArbChoices(CandidateLists) :
       ChoiceSum(ChoiceOf(CandidateLists, c), Len(CandidateLists)) = <<1, 1>>
  /\ \E i, j \in 1..Len(Evaluated) :
       /\ i < j
       /\ FGreater(Evaluated[j].arbitragePercentage, Evaluated[i].arbitragePercentage)

(***************************************************************************)
(* C25.  The order of the accesses loadOddsData makes: without a fixture   *)
(* id only the local file is read; with one, the API is asked exactly once *)
(* (GET /v4/odds with that fixtureId, oddsFormat 'decimal', verbosity 3)   *)
(* before any file read, the file is read only after that request has      *)
(* failed, and a successful response is returned without a file read.      *)
(***************************************************************************)
C25_AccessOrder ==
  call.fn = "calculateArbitrage" /\ call.pc # "load" =>
    IF call.fixtureId = ""
    THEN call.accesses = <<FileRead>>
    ELSE IF call.pc = "awaiting"
         THEN call.accesses = <<ApiRequest(call.fixtureId)>>
    ELSE IF call.api.ok
         THEN /\ call.accesses = <<ApiRequest(call.fixtureId)>>
              /\ call.data = call.api.data
         ELSE call.accesses = <<ApiRequest(call.fixtureId), FileRead>>

\* a run with a fixture id whose request succeeded while a readable local
\* file was there: the response was analysed and the file never read
C25_Witness ==
  /\ Succeeded
  /\ call.fixtureId # ""
  /\ call.api.ok
  /\ call.file.ok
  /\ call.accesses = <<ApiRequest(call.fixtureId)>>
  /\ result.fixture.fixtureId = "id1"

(***************************************************************************)
(* C26.  Both modes populate the same opportunity shape: every opportunity *)
(* of analyzeMarket and of analyzeMarketTopK, whatever the options, has a  *)
(* betDistribution with one entry per entry of outcomes, in the same       *)
(* order, naming the same outcome and the same bookmaker.                  *)
(***************************************************************************)
C26_SameShape ==
  \A opp \in Returned :
    /\ Len(opp.betDistribution) = Len(opp.outcomes)
    /\ \A i \in 1..Len(opp.betDistribution) :
         /\ opp.betDistribution[i].outcomeId = opp.outcomes[i].outcomeId
         /\ opp.betDistribution[i].bookmaker = opp.outcomes[i].bookmaker

(***************************************************************************)
(* C27.  No analysis operation writes an object it is handed.  Whatever    *)
(* calls of getActiveBookmakers, getAllMarkets, getMarketOutcomes,         *)
(* analyzeMarket, buildTopOutcomeOddsMap, generateCombinations,            *)
(* evaluateCombinations and analyzeMarketTopK are made on a snapshot, in   *)
(* whatever order and on whichever of the objects earlier calls returned,  *)
(* every object that was there before a call (the snapshot, the            *)
(* activeBookmakers lists, the candidate lists and the arrays of them, the *)
(* combinations) is after it as it was before; and what an operation       *)
(* returns for a market is what it returns on the snapshot as loaded and   *)
(* its list of active bookmakers, whichever markets were analysed before.  *)
(***************************************************************************)
\* what the call just made returns on the snapshot as it was loaded
OnLoaded(fn, made) ==
  CASE fn = "getAllMarkets" -> getAllMarkets(oddsData, ActiveList)
    [] fn = "getMarketOutcomes" -> getMarketOutcomes(made.marketId, oddsData, ActiveList)
    [] fn = "analyzeMarket" -> analyzeMarket(made.marketId, oddsData, ActiveList)
    [] fn = "buildTopOutcomeOddsMap" ->
         buildTopOutcomeOddsMap(made.marketId, oddsData, ActiveList, made.topK)
    [] fn = "analyzeMarketTopK" ->
         analyzeMarketTopK(made.marketId, oddsData, ActiveList, made.options)

C27_InputsUnchanged ==
  [][/\ \A a \in 1..Len(heap) : heap'[a] = heap[a]
     /\ "activeBookmakers" \in DOMAIN call' => result' = OnLoaded(call'.fn, call')]_vars

\* the calls of the log that analysed a market with the list of the call
\* just made
AnalysedBefore ==
  {i \in 1..(Len(call.log) - 1) :
     /\ call.log[i].fn \in {"analyzeMarket", "analyzeMarketTopK"}
     /\ call.log[i].activeBookmakers = call.activeBookmakers}

\* on one list of two bookmakers a top-K analysis of one market has followed
\* analyses of the other market in both modes; it sorted a list of quotes
\* and the list of its opportunities into another order, in place, and
\* returned some of them
C27_Witness ==
  /\ call.fn = "analyzeMarketTopK"
  /\ Len(heap[call.activeBookmakers].v) = 2
  /\ \E i, j \in AnalysedBefore :
       /\ call.log[i].fn = "analyzeMarket"
       /\ call.log[j].fn = "analyzeMarketTopK"
       /\ call.log[i].marketId # call.marketId
       /\ call.log[j].marketId # call.marketId
  /\ \E o \in OutcomeSet(call.marketId) :
       LET allOdds == CollectOdds(call.marketId, o, oddsData, ActiveList, 1)
       IN  /\ Len(allOdds) = 2
           /\ SortByOddsDesc(allOdds) # allOdds
           /\ \E a \in Addresses("allOdds") : heap[a].v = SortByOddsDesc(allOdds)
  /\ LET opportunities == heap[call.log[Len(call.log)].ret - 1].v
     IN  /\ Len(opportunities) > Len(result)
         /\ result = Slice(opportunities, 2)
         /\ FGreater(result[1].arbitragePercentage, result[2].arbitragePercentage)
         /\ opportunities #
              evaluateCombinations(call.marketId, <<1, 2>>,
                                   generateCombinations(CandidateLists,
                                                        DefaultMaxCombinations),
                                   FALSE)

(***************************************************************************)
(* C28.  The two modes agree on the best opportunity: for every K in 1..3  *)
(* analyzeMarket returns an opportunity exactly when analyzeMarketTopK     *)
(* returns a non-empty list, whose first element then has the same         *)
(* outcome -> (bookmaker, odds) assignment, the same                       *)
(* totalImpliedProbability and the same arbitragePercentage.               *)
(***************************************************************************)
AssignmentOf(opp) ==
  [i \in 1..Len(opp.outcomes) |->
     <<opp.outcomes[i].outcomeId, opp.outcomes[i].bookmaker, opp.outcomes[i].odds>>]

AgreesWithTopK(single, top) ==
  /\ (single # << >>) <=> (top # << >>)
  /\ single # << >> /\ top # << >> =>
       /\ AssignmentOf(single[1]) = AssignmentOf(top[1])
       /\ single[1].totalImpliedProbability = top[1].totalImpliedProbability
       /\ single[1].arbitragePercentage = top[1].arbitragePercentage

C28_ModesAgree ==
  call.fn = "analyzeMarket" =>
    \A K \in 1..3 :
      AgreesWithTopK(result,
                     analyzeMarketTopK(call.marketId, oddsData, ActiveList,
                                       [topk |-> K, maxResults |-> 5,
                                        includeBetDistribution |-> TRUE,
                                        combinationCap |-> DefaultMaxCombinations]))

(***************************************************************************)
(* C29.  Every opportunity, in either mode, is a valid assignment for its  *)
(* market: its outcomes name each outcome id of the market's outcome set   *)
(* exactly once, and for each entry the named bookmaker is active, carries *)
(* the market and the outcome, and its active quote for that outcome has   *)
(* exactly the reported odds.                                              *)
(***************************************************************************)
IsValidEntry(m, e) ==
  /\ e.bookmaker \in ActiveNames
  /\ Carries(e.bookmaker, m, e.outcomeId)
  /\ QuoteOf(e.bookmaker, m, e.outcomeId).active
  /\ QuoteOf(e.bookmaker, m, e.outcomeId).price = e.odds

C29_ValidAssignment ==
  \A opp \in Returned :
    /\ {opp.outcomes[i].outcomeId : i \in 1..Len(opp.outcomes)} = OutcomeSet(call.marketId)
    /\ Len(opp.outcomes) = Cardinality(OutcomeSet(call.marketId))
    /\ \A i \in 1..Len(opp.outcomes) : IsValidEntry(call.marketId, opp.outcomes[i])

\* top-K mode returned an opportunity over two or more outcomes whose
\* entries come from different bookmakers at different prices
C29_Witness ==
  /\ call.fn = "analyzeMarketTopK"
  /\ \E k \in 1..Len(result) :
       /\ Len(result[k].outcomes) >= 2
       /\ result[k].outcomes[1].bookmaker # result[k].outcomes[2].bookmaker
       /\ result[k].outcomes[1].odds # result[k].outcomes[2].odds

(***************************************************************************)
(* C30.  Every reported opportunity with a stake distribution is risk-free *)
(* as reported: whichever outcome wins, odds_i x betPercentage_i is at     *)
(* least the sum of all reported betPercentage values.                     *)
(***************************************************************************)
C30_RiskFree ==
  \A opp \in WithStakes :
    /\ AllStakesFinite(opp)
    /\ \A i \in 1..Len(opp.betDistribution) :
         LET payout == PayoutOf(opp, i)
         IN  payout[1] >= SumStakes(opp.betDistribution, Len(opp.betDistribution)) * payout[2]

====
